---- MODULE Spec2Model ----
(***************************************************************************)
(* A state-machine model of pumpfun-listener-rs: the permit-gated          *)
(* transaction fetcher (listener_helpers.rs), the log-stream listener and  *)
(* its creation parser (listeners/pumpfun.rs), the mint decoder and the    *)
(* metadata lookup (token_helper.rs) and the event sink (processor.rs).    *)
(***************************************************************************)
EXTENDS Integers, Sequences, FiniteSets, TLC

(***************************************************************************)
(* Bounds of the model.                                                    *)
(***************************************************************************)
\* concurrent callers of fetch_transaction_with_retry in SpecPool
NumCallers == 3
\* capacity of the permit pool those callers share in SpecPool
PoolCapacity == 2
\* log lines per notification
MaxLines == 2

(***************************************************************************)
(* Program constants.                                                      *)
(***************************************************************************)
\* Semaphore::new(8)
MainPermits == 8
\* main constructs one PumpFunListener
NumListeners == 1
\* tokio::time::Duration::from_secs(5)
ReconnectDelaySecs == 5
\* for attempt in 1..=3
MaxSigAttempts == 3

(***************************************************************************)
(* Option<T>: None is the empty set, Some(v) the singleton {v}.            *)
(***************************************************************************)
None == {}
Some(v) == {v}
Unwrap(o) == CHOOSE v \in o : TRUE

(***************************************************************************)
(* Text.  A string is a sequence of fragments; str::contains is the search *)
(* for a contiguous run of fragments.                                      *)
(***************************************************************************)
Contains(s, m) ==
    \E i \in 0..(Len(s) - Len(m)) : \A j \in 1..Len(m) : s[i + j] = m[j]

(***************************************************************************)
(* The RPC collaborator's answers to get_transaction_with_config.          *)
(***************************************************************************)
\* error texts an endpoint answers with, as fragments
ErrVersion == <<"Transaction version", " (0) is ", "not supported by the requesting client">>
ErrVersionShort == <<"Transaction version", " unknown">>
ErrNull == <<"invalid type: null", ", expected struct">>
ErrOther == <<"connection refused">>
ErrMsgs == {ErrVersion, ErrVersionShort, ErrNull, ErrOther}

\* is_version_error closure
is_version_error(msg) ==
    \/ Contains(msg, <<"Transaction version">>)
    \/ Contains(msg, <<"not supported by the requesting client">>)

\* the warn! branch an answer takes: what the fetcher can tell about it
Outcome(r) ==
    IF r.ok THEN "ok"
    ELSE IF is_version_error(r.msg) THEN "version"
    ELSE IF Contains(r.msg, <<"invalid type: null">>) THEN "null"
    ELSE "other"

(***************************************************************************)
(* Signatures and public keys: text forms and their parsed values.         *)
(***************************************************************************)
SigStrings == {"sigN", "sigE", "not-a-signature"}
\* Signature::from_str
ParseSignature(s) ==
    IF s = "sigN" THEN Some(101) ELSE IF s = "sigE" THEN Some(102) ELSE None

WrappedSol == "So11111111111111111111111111111111111111112"
AtaProgramId == "ATokenGPvbdGVxr1b2hvZbsiqW5xWH25efTNsLJA8knL"
PubkeyTable == <<"MintA", "MintB", WrappedSol, "PumpProgram">>
\* Pubkey::from_str: the index of the key, or None for text that is no key
Pubkey_from_str(s) ==
    IF \E i \in 1..Len(PubkeyTable) : PubkeyTable[i] = s
    THEN Some(CHOOSE i \in 1..Len(PubkeyTable) : PubkeyTable[i] = s)
    ELSE None
\* Pubkey::to_string
Pubkey_to_string(k) == PubkeyTable[k]

(***************************************************************************)
(* Transactions as the endpoint serves them (JsonParsed encoding).         *)
(***************************************************************************)
Instr(parsed, program, program_id, type, info) ==
    [parsed |-> parsed, program |-> program, program_id |-> program_id,
     type |-> type, info |-> info]
AtaInstr(type, info) ==
    Instr(TRUE, "spl-associated-token-account", AtaProgramId, type, info)
CreateIdempotent(mint) ==
    AtaInstr(Some("createIdempotent"), Some([mint |-> Some(mint)]))
InstrSamples ==
    { CreateIdempotent("MintA"),
      CreateIdempotent("MintB"),
      CreateIdempotent(WrappedSol),
      CreateIdempotent("not-a-pubkey"),
      AtaInstr(Some("create"), Some([mint |-> Some("MintB")])),
      AtaInstr(Some("createIdempotent"), None),
      Instr(TRUE, "spl-token", "TokenkegQfeZyiNwAJbNbGKPFXCWuBvf9Ss623VQ5DA",
            Some("createIdempotent"), Some([mint |-> Some("MintB")])),
      Instr(FALSE, "", "11111111111111111111111111111111", None, None) }
\* instruction lists of at most MaxInstrs instructions: copies of one
\* instruction followed by another one
MaxInstrs == 2
InstrLists ==
    {<<>>} \cup {[i \in 1..k |-> p] \o <<q>> :
                    p \in InstrSamples, q \in InstrSamples, k \in 0..(MaxInstrs - 1)}
BlockTimes == {None, Some(1700)}
Tx(message, instructions, block_time) ==
    [message |-> message, instructions |-> instructions, block_time |-> block_time]
\* what the endpoint may hold under a signature: sigN is a program
\* transaction of unknown content, sigE a plain one
TxsOf(sig) ==
    IF sig = 101
    THEN {Tx("parsed", il, Some(1700)) : il \in InstrLists}
         \cup {Tx("parsed", <<>>, None), Tx("raw", <<>>, Some(1700))}
    ELSE {Tx("parsed", <<>>, bt) : bt \in BlockTimes}

RpcOk(tx) == [ok |-> TRUE, tx |-> Some(tx), msg |-> <<>>]
RpcErr(msg) == [ok |-> FALSE, tx |-> None, msg |-> msg]
\* rpc.get_transaction_with_config(sig, config)
RpcGetTransaction(sig) ==
    {RpcOk(t) : t \in TxsOf(sig)} \cup {RpcErr(m) : m \in ErrMsgs}

(***************************************************************************)
(* Log notifications (RpcLogsResponse) and their classification.           *)
(***************************************************************************)
LineSamples ==
    { <<"Program ", "PumpProgram", " invoke [1]">>,
      <<"Program ", "PumpProgram", " ", "success">>,
      <<"Program ", "OtherProgram", " ", "success">>,
      <<"Program log: ", "Instruction: Create">>,
      <<"Program log: ", "Instruction: Buy">>,
      <<"Program log: ", "Instruction: Sell">>,
      <<"Program log: Instruction: ", "InitializeMint", "2">>,
      <<"Program log: Instruction: ", "InitializeAccount">>,
      <<"Program data: ", "SwapEvent">> }
LogLists == UNION {[1..n -> LineSamples] : n \in 0..MaxLines}
Notifications == {[signature |-> s, logs |-> ll] : s \in SigStrings, ll \in LogLists}

\* log.logs.iter().any(|l| l.contains(marker))
AnyLine(logs, marker) == \E i \in 1..Len(logs) : Contains(logs[i], marker)

\* the markers of a token creation
CreateMarkers ==
    { <<"InitializeMint">>, <<"InitializeMint", "2">>,
      <<"CreateMetadataAccount">>, <<"CreateMetadataAccount", "V3">>,
      <<"Instruction: Create">>, <<"master_edition">>,
      <<"InitializeAccount", "3">> }

\* the flags process_log computes from the log lines
Classify(logs) ==
    [is_success |-> AnyLine(logs, <<"success">>),
     is_buy |-> AnyLine(logs, <<"Instruction: Buy">>),
     is_sell |-> AnyLine(logs, <<"Instruction: Sell">>),
     is_create |-> \E m \in CreateMarkers : AnyLine(logs, m),
     is_swap |-> \/ AnyLine(logs, <<"Instruction: SwapTob">>)
                 \/ AnyLine(logs, <<"SwapEvent">>)]

\* the filter of listen: some line names the program
Mentions(logs, program) == AnyLine(logs, <<program>>)

(***************************************************************************)
(* Mint extraction: the scan of the parsed instruction list.               *)
(***************************************************************************)
\* mutant: the instruction type is not compared with "createIdempotent"
MintOfInstr_any_type(pi) ==
    IF /\ pi.parsed
       /\ pi.program = "spl-associated-token-account"
       /\ pi.program_id = AtaProgramId
       /\ pi.info # None
       /\ Unwrap(pi.info).mint # None
    THEN Pubkey_from_str(Unwrap(Unwrap(pi.info).mint))
    ELSE None

\* the mint an instruction yields, None when it does not match
MintOfInstr(pi) ==
    IF /\ pi.parsed
       /\ pi.program = "spl-associated-token-account"
       /\ pi.program_id = AtaProgramId
       /\ (IF pi.type = None THEN "" ELSE Unwrap(pi.type)) = "createIdempotent"
       /\ pi.info # None
       /\ Unwrap(pi.info).mint # None
    THEN Pubkey_from_str(Unwrap(Unwrap(pi.info).mint))
    ELSE None

\* mutant: the scan goes through the whole list and the last mint found
\* replaces the ones before it
ScanInstructions_last_wins(instrs, i) ==
    LET hits == {j \in i..Len(instrs) : MintOfInstr(instrs[j]) # None} IN
    IF hits = {} THEN None
    ELSE MintOfInstr(instrs[CHOOSE j \in hits : \A k \in hits : k <= j])

RECURSIVE ScanInstructions(_, _)
\* the for loop from instruction i on: breaks at the first mint found
ScanInstructions(instrs, i) ==
    IF i > Len(instrs) THEN None
    ELSE IF MintOfInstr(instrs[i]) # None THEN MintOfInstr(instrs[i])
    ELSE ScanInstructions(instrs, i + 1)

ExtractMint(tx) ==
    IF tx.message = "parsed" THEN ScanInstructions(tx.instructions, 1) ELSE None

(***************************************************************************)
(* get_signatures_for_address, get_account, the metadata service and the   *)
(* sink: the answers they may give.                                        *)
(***************************************************************************)
\* signatures per answer of get_signatures_for_address
MaxSigs == 2
SigLists == UNION {[1..n -> SigStrings] : n \in 0..MaxSigs}
RpcGetSignatures ==
    {[ok |-> TRUE, sigs |-> sl] : sl \in SigLists} \cup {[ok |-> FALSE, sigs |-> <<>>]}

\* account data: the 82-byte Mint layout, or bytes that are not one
MintBytes(decimals, supply, mint_authority, freeze_authority) ==
    [len |-> 82, is_initialized |-> TRUE, decimals |-> decimals, supply |-> supply,
     mint_authority |-> mint_authority, freeze_authority |-> freeze_authority]
DataSamples ==
    { MintBytes(6, 1000000, None, None),
      MintBytes(9, 5000000, Some(4), Some(4)),
      [MintBytes(6, 1000000, None, None) EXCEPT !.len = 170],
      [MintBytes(0, 0, None, None) EXCEPT !.is_initialized = FALSE] }
Owners == {"spl_token", "spl_token_2022", "system_program"}
RpcGetAccount ==
    {[ok |-> TRUE, owner |-> o, data |-> d] : o \in Owners, d \in DataSamples}
    \cup {[ok |-> FALSE, owner |-> "", data |-> <<>>]}

\* Pack::unpack for spl_token::state::Mint
LegacyMint_unpack(data) ==
    IF data.len = 82 /\ data.is_initialized THEN Some(data) ELSE None
\* Pack::unpack for spl_token_2022::state::Mint
Mint2022_unpack(data) ==
    IF data.len = 82 /\ data.is_initialized THEN Some(data) ELSE None

MintInfo(program, mint) ==
    [program |-> program, decimals |-> mint.decimals, supply |-> mint.supply,
     mint_authority |-> mint.mint_authority,
     freeze_authority |-> mint.freeze_authority]

\* mutant: the account's owner is not looked at
load_mint_info_any_owner(r) ==
    IF ~r.ok THEN None
    ELSE IF LegacyMint_unpack(r.data) # None
         THEN Some(MintInfo(IF r.owner = "spl_token_2022" THEN "Token2022" ELSE "Token",
                            Unwrap(LegacyMint_unpack(r.data))))
         ELSE None

\* load_mint_info on the answer of rpc.get_account: an Option<MintInfo>,
\* the Result around it is always Ok
load_mint_info(r) ==
    IF ~r.ok THEN None
    ELSE IF r.owner = "spl_token"
         THEN IF LegacyMint_unpack(r.data) # None
              THEN Some(MintInfo("Token", Unwrap(LegacyMint_unpack(r.data))))
              ELSE None
    ELSE IF r.owner = "spl_token_2022"
         THEN IF Mint2022_unpack(r.data) # None
              THEN Some(MintInfo("Token2022", Unwrap(Mint2022_unpack(r.data))))
              ELSE None
    ELSE None

\* answers of the metadata service
Pair(name, symbol) == [name |-> name, symbol |-> symbol]
Bodies ==
    {[json |-> FALSE, array |-> FALSE, pairs |-> <<>>],
     [json |-> TRUE, array |-> FALSE, pairs |-> <<>>],
     [json |-> TRUE, array |-> TRUE, pairs |-> <<>>]}
    \cup {[json |-> TRUE, array |-> TRUE, pairs |-> <<Pair(n, y)>>] :
            n \in {None, Some("Foo")}, y \in {None, Some("FOO")}}
MetadataReplies ==
    {[sent |-> FALSE, success |-> FALSE, body |-> None],
     [sent |-> TRUE, success |-> FALSE, body |-> None],
     [sent |-> TRUE, success |-> TRUE, body |-> None]}
    \cup {[sent |-> TRUE, success |-> TRUE, body |-> Some(b)] : b \in Bodies}

TokenInfo(name, symbol) == [name |-> name, symbol |-> symbol]
\* fetch_token_info on the service's answer: Ok(TokenInfo), or Err when the
\* body of a successful answer cannot be read (resp.text().await?)
fetch_token_info(reply) ==
    IF reply.sent /\ reply.success
    THEN IF reply.body = None THEN [ok |-> FALSE, info |-> None]
         ELSE LET b == Unwrap(reply.body) IN
              IF b.json /\ b.array /\ Len(b.pairs) > 0
              THEN [ok |-> TRUE,
                    info |-> Some(TokenInfo(
                        IF b.pairs[1].name = None THEN "Unknown"
                        ELSE Unwrap(b.pairs[1].name),
                        IF b.pairs[1].symbol = None THEN "UNK"
                        ELSE Unwrap(b.pairs[1].symbol)))]
              ELSE [ok |-> TRUE, info |-> Some(TokenInfo("Unknown", "UNK"))]
    ELSE [ok |-> TRUE, info |-> Some(TokenInfo("Unknown", "UNK"))]

\* chrono::Utc::now()
NowTs == 2000

\* mutant: the authority flags are true when the authority is present
Token_flags_inverted(mint, created_at, token_info, mint_data) ==
    [mint_address |-> Pubkey_to_string(mint),
     created_at |-> created_at,
     discovered_at |-> NowTs,
     source |-> "Pumpfun",
     name |-> Some(token_info.name),
     symbol |-> Some(token_info.symbol),
     decimals |-> mint_data.decimals,
     total_supply |-> mint_data.supply,
     holder_count |-> Some(0),
     top_10_holder_percentage |-> Some(0),
     liquidity_sol |-> Some(0),
     liquidity_locked |-> Some(FALSE),
     lp_burned |-> Some(FALSE),
     mint_authority_disabled |-> (mint_data.mint_authority # None),
     freeze_authority_disabled |-> (mint_data.freeze_authority # None),
     raydium_pool |-> None, pump_fun_bonding_curve |-> None,
     orca_pool |-> None, meteora_pool |-> None, four_meme_pool |-> None,
     base_pair |-> None, bsc_pair |-> None, score |-> None,
     risk_level |-> None]

\* the Token parse_pumpfun_creation assembles
Token(mint, created_at, token_info, mint_data) ==
    [mint_address |-> Pubkey_to_string(mint),
     created_at |-> created_at,
     discovered_at |-> NowTs,
     source |-> "Pumpfun",
     name |-> Some(token_info.name),
     symbol |-> Some(token_info.symbol),
     decimals |-> mint_data.decimals,
     total_supply |-> mint_data.supply,
     holder_count |-> Some(0),
     top_10_holder_percentage |-> Some(0),
     liquidity_sol |-> Some(0),
     liquidity_locked |-> Some(FALSE),
     lp_burned |-> Some(FALSE),
     mint_authority_disabled |-> (mint_data.mint_authority = None),
     freeze_authority_disabled |-> (mint_data.freeze_authority = None),
     raydium_pool |-> None, pump_fun_bonding_curve |-> None,
     orca_pool |-> None, meteora_pool |-> None, four_meme_pool |-> None,
     base_pair |-> None, bsc_pair |-> None, score |-> None,
     risk_level |-> None]

\* outcomes of Processor::publish_event
SinkReplies == {"published", "open_failed", "connect_failed", "publish_failed"}

(***************************************************************************)
(* TokenSource: its variants, its string forms and its parser. A text is   *)
(* the sequence of its characters.                                         *)
(***************************************************************************)
UpperCase ==
    <<"A", "B", "C", "D", "E", "F", "G", "H", "I", "J", "K", "L", "M",
      "N", "O", "P", "Q", "R", "S", "T", "U", "V", "W", "X", "Y", "Z">>
LowerCase ==
    <<"a", "b", "c", "d", "e", "f", "g", "h", "i", "j", "k", "l", "m",
      "n", "o", "p", "q", "r", "s", "t", "u", "v", "w", "x", "y", "z">>
\* char::to_lowercase and char::to_uppercase
LowerChar(ch) ==
    IF \E i \in 1..Len(UpperCase) : UpperCase[i] = ch
    THEN LowerCase[CHOOSE i \in 1..Len(UpperCase) : UpperCase[i] = ch]
    ELSE ch
UpperChar(ch) ==
    IF \E i \in 1..Len(LowerCase) : LowerCase[i] = ch
    THEN UpperCase[CHOOSE i \in 1..Len(LowerCase) : LowerCase[i] = ch]
    ELSE ch
\* str::to_lowercase
to_lowercase(s) == [i \in 1..Len(s) |-> LowerChar(s[i])]

TokenSourceVariants == {"Pumpfun", "OnChain"}

\* impl fmt::Display for TokenSource
TokenSource_fmt(v) ==
    IF v = "OnChain" THEN <<"O", "n", "c", "h", "a", "i", "n">>
    ELSE <<"P", "u", "m", "p", "f", "u", "n">>

\* #[serde(rename_all = "kebab-case")]: the name serde_json writes
TokenSource_serialize(v) ==
    IF v = "OnChain" THEN <<"o", "n", "-", "c", "h", "a", "i", "n">>
    ELSE <<"p", "u", "m", "p", "f", "u", "n">>

SourceOk(v) == [ok |-> TRUE, value |-> Some(v), invalid |-> None]
\* Err(TokenSourceParseError::InvalidSource(s.to_string()))
SourceErr(s) == [ok |-> FALSE, value |-> None, invalid |-> Some(s)]

\* mutant: the text is matched as written, without to_lowercase
TokenSource_from_str_as_written(s) ==
    IF s = <<"p", "u", "m", "p", "f", "u", "n">> THEN SourceOk("Pumpfun")
    ELSE IF \/ s = <<"o", "n", "c", "h", "a", "i", "n">>
            \/ s = <<"o", "n", "-", "c", "h", "a", "i", "n">>
         THEN SourceOk("OnChain")
    ELSE SourceErr(s)

\* impl FromStr for TokenSource
TokenSource_from_str(s) ==
    LET t == to_lowercase(s) IN
    IF t = <<"p", "u", "m", "p", "f", "u", "n">> THEN SourceOk("Pumpfun")
    ELSE IF \/ t = <<"o", "n", "c", "h", "a", "i", "n">>
            \/ t = <<"o", "n", "-", "c", "h", "a", "i", "n">>
         THEN SourceOk("OnChain")
    ELSE SourceErr(s)

\* texts handed to the parser that are no form of a variant
OtherTexts ==
    { <<>>,
      <<"p", "u", "m", "p">>,
      <<"p", "u", "m", "p", "-", "f", "u", "n">>,
      <<"p", "u", "m", "p", "f", "u", "n", " ">>,
      <<"P", "U", "M", "P", "F", "U", "N", "S">>,
      <<"o", "n", "_", "c", "h", "a", "i", "n">>,
      <<"O", "n", " ", "C", "h", "a", "i", "n">>,
      <<"r", "a", "y", "d", "i", "u", "m">> }

\* the text with the letters at the positions in up written in upper case
\* and the others in lower case
Recase(s, up) ==
    [i \in 1..Len(s) |-> IF i \in up THEN UpperChar(s[i]) ELSE LowerChar(s[i])]

(***************************************************************************)
(* State.                                                                  *)
(***************************************************************************)
VARIABLES
    limiter,    \* the Semaphore: [permits, closed]
    pc,         \* per task: its position in start/listen/process_log/parse
    fetch,      \* per task: the frame of its fetch_transaction_with_retry call
    cnt,        \* per task: external calls made for the current notification
    config,     \* the loaded Config: [pump_fun]
    notif,      \* per listener: the notification in hand
    parse,      \* per listener: the locals of parse_pumpfun_creation
    out,        \* per listener: how process_log ended for the notification
    link,       \* per listener: why listen last returned, and the delay since
    source      \* the TokenSource conversion in hand: [op, variant, text, result]

lvars == <<config, source, notif, parse, out, link>>
vars == <<limiter, pc, fetch, cnt, config, source, notif, parse, out, link>>

Procs == DOMAIN pc

Pending == [tag |-> "Pending", val |-> None]
OkRes(val) == [tag |-> "Ok", val |-> val]
ErrRes == [tag |-> "Err", val |-> None]

IdleFetch ==
    [pc |-> "idle", sig |-> 0, permit |-> FALSE, hist |-> <<>>, res |-> Pending,
     nacq |-> 0, nrel |-> 0]
\* entry of fetch_transaction_with_retry(rpc, sig, limiter)
FetchCall(sig) == [IdleFetch EXCEPT !.pc = "acquire", !.sig = sig]

NoNotif == [signature |-> "", logs |-> <<>>]
NoParse ==
    [mint |-> None, attempt |-> 0, history |-> None, created_at |-> None,
     account |-> None, mint_data |-> None]
NoOut ==
    [res |-> "none", cause |-> "", class |-> None, parser |-> "none",
     token |-> None, published |-> FALSE, after_err |-> FALSE]
NoLink == [reason |-> "none", waited |-> 0]
NoSource == [op |-> "none", variant |-> None, text |-> <<>>, result |-> None]

NoCalls ==
    [fetch_calls |-> 0, get_transaction |-> 0, get_signatures |-> 0,
     get_account |-> 0, metadata |-> 0, publish |-> 0]

Attempts == {"attempt1", "attempt2", "attempt3"}

(***************************************************************************)
(* fetch_transaction_with_retry                                            *)
(***************************************************************************)
\* one entry of the call's history: the config sent, the answer's kind and
\* the transaction it carried
Sent(maxver, r) ==
    [max_supported_transaction_version |-> maxver, outcome |-> Outcome(r),
     tx |-> r.tx]

\* `return Ok(val)`: the result is set and _permit is dropped
FetchReturn(c, val, h) ==
    /\ fetch' = [fetch EXCEPT ![c].pc = "done", ![c].res = OkRes(val),
                              ![c].hist = h, ![c].permit = FALSE,
                              ![c].nrel = @ + 1]
    /\ limiter' = [limiter EXCEPT !.permits = @ + 1]
    /\ UNCHANGED cnt

\* the next attempt is issued under the same permit
FetchRetry(c, next, h) ==
    /\ fetch' = [fetch EXCEPT ![c].pc = next, ![c].hist = h]
    /\ cnt' = [cnt EXCEPT ![c].get_transaction = @ + 1]
    /\ UNCHANGED limiter

\* mutant: the call goes on without waiting for a free permit
FetchAcquire_nowait(c) ==
    /\ fetch[c].pc = "acquire"
    /\ limiter' = [limiter EXCEPT !.permits = IF @ > 0 THEN @ - 1 ELSE 0]
    /\ fetch' = [fetch EXCEPT ![c].pc = "attempt1", ![c].permit = (limiter.permits > 0),
                              ![c].nacq = @ + 1]
    /\ cnt' = [cnt EXCEPT ![c].get_transaction = @ + 1]
    /\ UNCHANGED <<pc, lvars>>

\* limiter.acquire_owned().await?, then attempt 1 is issued
FetchAcquire(c) ==
    /\ fetch[c].pc = "acquire"
    /\ IF limiter.closed
       THEN /\ fetch' = [fetch EXCEPT ![c].pc = "done", ![c].res = ErrRes]
            /\ UNCHANGED <<limiter, cnt>>
       ELSE /\ limiter.permits > 0
            /\ limiter' = [limiter EXCEPT !.permits = @ - 1]
            /\ fetch' = [fetch EXCEPT ![c].pc = "attempt1", ![c].permit = TRUE,
                                      ![c].nacq = @ + 1]
            /\ cnt' = [cnt EXCEPT ![c].get_transaction = @ + 1]
    /\ UNCHANGED <<pc, lvars>>

\* mutant: a successful attempt 1 returns with the permit still taken
FetchAttempt1_keeps_permit(c) ==
    /\ fetch[c].pc = "attempt1"
    /\ \E r \in RpcGetTransaction(fetch[c].sig) :
         LET h == Append(fetch[c].hist, Sent(None, r)) IN
         IF r.ok
         THEN /\ fetch' = [fetch EXCEPT ![c].pc = "done", ![c].res = OkRes(r.tx),
                                        ![c].hist = h]
              /\ UNCHANGED <<limiter, cnt>>
         ELSE IF ~is_version_error(r.msg) THEN FetchReturn(c, None, h)
         ELSE FetchRetry(c, "attempt2", h)
    /\ UNCHANGED <<pc, lvars>>

\* mutant: attempt 1 retries on every error, version mismatch or not
FetchAttempt1_retry_any(c) ==
    /\ fetch[c].pc = "attempt1"
    /\ \E r \in RpcGetTransaction(fetch[c].sig) :
         LET h == Append(fetch[c].hist, Sent(None, r)) IN
         IF r.ok THEN FetchReturn(c, r.tx, h)
         ELSE FetchRetry(c, "attempt2", h)
    /\ UNCHANGED <<pc, lvars>>

\* attempt 1 (max_supported_transaction_version: None) answers
FetchAttempt1(c) ==
    /\ fetch[c].pc = "attempt1"
    /\ \E r \in RpcGetTransaction(fetch[c].sig) :
         LET h == Append(fetch[c].hist, Sent(None, r)) IN
         IF r.ok THEN FetchReturn(c, r.tx, h)
         ELSE IF ~is_version_error(r.msg) THEN FetchReturn(c, None, h)
         ELSE FetchRetry(c, "attempt2", h)
    /\ UNCHANGED <<pc, lvars>>

\* mutant: a success of attempt 2 is dropped and attempt 3 is issued
FetchAttempt2_falls_through(c) ==
    /\ fetch[c].pc = "attempt2"
    /\ \E r \in RpcGetTransaction(fetch[c].sig) :
         LET h == Append(fetch[c].hist, Sent(Some(0), r)) IN
         IF ~r.ok /\ ~is_version_error(r.msg) THEN FetchReturn(c, None, h)
         ELSE FetchRetry(c, "attempt3", h)
    /\ UNCHANGED <<pc, lvars>>

\* attempt 2 (max_supported_transaction_version: Some(0)) answers
FetchAttempt2(c) ==
    /\ fetch[c].pc = "attempt2"
    /\ \E r \in RpcGetTransaction(fetch[c].sig) :
         LET h == Append(fetch[c].hist, Sent(Some(0), r)) IN
         IF r.ok THEN FetchReturn(c, r.tx, h)
         ELSE IF ~is_version_error(r.msg) THEN FetchReturn(c, None, h)
         ELSE FetchRetry(c, "attempt3", h)
    /\ UNCHANGED <<pc, lvars>>

\* mutant: the last error is passed on to the caller (`?`)
FetchAttempt3_propagates(c) ==
    /\ fetch[c].pc = "attempt3"
    /\ \E r \in RpcGetTransaction(fetch[c].sig) :
         LET h == Append(fetch[c].hist, Sent(None, r)) IN
         IF r.ok THEN FetchReturn(c, r.tx, h)
         ELSE /\ fetch' = [fetch EXCEPT ![c].pc = "done", ![c].res = ErrRes,
                                        ![c].hist = h, ![c].permit = FALSE,
                                        ![c].nrel = @ + 1]
              /\ limiter' = [limiter EXCEPT !.permits = @ + 1]
              /\ UNCHANGED cnt
    /\ UNCHANGED <<pc, lvars>>

\* mutant: the permit is kept when the retries are exhausted
FetchAttempt3_leaks(c) ==
    /\ fetch[c].pc = "attempt3"
    /\ \E r \in RpcGetTransaction(fetch[c].sig) :
         LET h == Append(fetch[c].hist, Sent(None, r)) IN
         IF r.ok THEN FetchReturn(c, r.tx, h)
         ELSE /\ fetch' = [fetch EXCEPT ![c].pc = "done", ![c].res = OkRes(None),
                                        ![c].hist = h]
              /\ UNCHANGED <<limiter, cnt>>
    /\ UNCHANGED <<pc, lvars>>

\* attempt 3 (max_supported_transaction_version: None) answers
FetchAttempt3(c) ==
    /\ fetch[c].pc = "attempt3"
    /\ \E r \in RpcGetTransaction(fetch[c].sig) :
         LET h == Append(fetch[c].hist, Sent(None, r)) IN
         IF r.ok THEN FetchReturn(c, r.tx, h)
         ELSE FetchReturn(c, None, h)
    /\ UNCHANGED <<pc, lvars>>

(***************************************************************************)
(* PumpFunListener::start and listen: the supervisory loop.                *)
(***************************************************************************)
\* listen returns Err(reason): start logs it and sleeps
\* mutant: start passes the error of listen on and returns
ListenFails_returns(l, reason) ==
    /\ pc' = [pc EXCEPT ![l] = "stopped"]
    /\ link' = [link EXCEPT ![l] = [reason |-> reason, waited |-> 0]]

\* listen returns Err(e): start logs it and sleeps
ListenFails(l, reason) ==
    /\ pc' = [pc EXCEPT ![l] = "sleep"]
    /\ link' = [link EXCEPT ![l] = [reason |-> reason, waited |-> 0]]

\* PubsubClient::new(rpc_wss_url).await? answers
ListenConnect(l) ==
    /\ pc[l] = "connect"
    /\ \E ok \in BOOLEAN :
         IF ok
         THEN /\ pc' = [pc EXCEPT ![l] = "subscribe"]
              /\ link' = [link EXCEPT ![l] = NoLink]
         ELSE ListenFails(l, "connect_failed")
    /\ UNCHANGED <<limiter, fetch, cnt, config, source, notif, parse, out>>

\* Pubkey::from_str(pump_fun)?, then logs_subscribe(..).await? answers
ListenSubscribe(l) ==
    /\ pc[l] = "subscribe"
    /\ IF Pubkey_from_str(config.pump_fun) = None
       THEN ListenFails(l, "bad_program_id")
       ELSE \E ok \in BOOLEAN :
              IF ok
              THEN pc' = [pc EXCEPT ![l] = "stream"] /\ UNCHANGED link
              ELSE ListenFails(l, "subscribe_failed")
    /\ UNCHANGED <<limiter, fetch, cnt, config, source, notif, parse, out>>

\* tokio::time::sleep(5 s) of start elapses, and listen is called again
StartSleep(l) ==
    /\ pc[l] = "sleep"
    /\ pc' = [pc EXCEPT ![l] = "connect"]
    /\ link' = [link EXCEPT ![l].waited = ReconnectDelaySecs]
    /\ UNCHANGED <<limiter, fetch, cnt, config, source, notif, parse, out>>

\* mutant: the next notification is read while the result of the last one
\* is still to be handled
StreamNext_early(l) ==
    /\ pc[l] \in {"stream", "returned"}
    /\ \E n \in Notifications : notif' = [notif EXCEPT ![l] = n]
    /\ pc' = [pc EXCEPT ![l] = "filter"]
    /\ UNCHANGED <<limiter, fetch, cnt, config, source, parse, out, link>>

\* stream.next().await yields Some(notification)
StreamNext(l) ==
    /\ pc[l] = "stream"
    /\ \E n \in Notifications : notif' = [notif EXCEPT ![l] = n]
    /\ pc' = [pc EXCEPT ![l] = "filter"]
    /\ UNCHANGED <<limiter, fetch, cnt, config, source, parse, out, link>>

\* stream.next().await yields None: unsubscribe().await, Ok(()), and start
\* calls listen again at once
StreamEnd(l) ==
    /\ pc[l] = "stream"
    /\ pc' = [pc EXCEPT ![l] = "connect"]
    /\ link' = [link EXCEPT ![l] = [reason |-> "stream_ended", waited |-> 0]]
    /\ out' = [out EXCEPT ![l] = NoOut]
    /\ UNCHANGED <<limiter, fetch, cnt, config, source, notif, parse>>

\* mutant: every notification is handed to process_log
FilterLog_passes_all(l) ==
    /\ pc[l] = "filter"
    /\ pc' = [pc EXCEPT ![l] = "process_log"]
    /\ out' = [out EXCEPT ![l].cause = ""]
    /\ UNCHANGED <<limiter, fetch, cnt, config, source, notif, parse, link>>

\* the mention filter of the while loop: a notification none of whose lines
\* contains the program's key is dropped (recorded as cause "skipped" until
\* the next notification passes the filter) and the loop polls the stream
FilterLog(l) ==
    /\ pc[l] = "filter"
    /\ IF Mentions(notif[l].logs,
                   Pubkey_to_string(Unwrap(Pubkey_from_str(config.pump_fun))))
       THEN /\ pc' = [pc EXCEPT ![l] = "process_log"]
            /\ out' = [out EXCEPT ![l].cause = ""]
            /\ UNCHANGED notif
       ELSE /\ pc' = [pc EXCEPT ![l] = "stream"]
            /\ notif' = [notif EXCEPT ![l] = NoNotif]
            /\ out' = [out EXCEPT ![l] = [NoOut EXCEPT !.cause = "skipped"]]
    /\ UNCHANGED <<limiter, fetch, cnt, config, source, parse, link>>

(***************************************************************************)
(* process_log and parse_pumpfun_creation.                                 *)
(***************************************************************************)
\* process_log returns to the while loop of listen; the locals of the call
\* are gone
ProcessLogReturns(l, res, cause, parser, token, published) ==
    /\ pc' = [pc EXCEPT ![l] = "returned"]
    /\ out' = [out EXCEPT ![l].res = res, ![l].cause = cause,
                          ![l].parser = parser, ![l].token = token,
                          ![l].published = published]
    /\ notif' = [notif EXCEPT ![l] = NoNotif]
    /\ parse' = [parse EXCEPT ![l] = NoParse]

\* parse_pumpfun_creation returns Err: process_log passes it on (`?`)
ParserFails(l, cause) == ProcessLogReturns(l, "Err", cause, "error", None, FALSE)
\* parse_pumpfun_creation returns Ok(None) at the return named by cause:
\* process_log returns Ok(())
ParserNoToken(l, cause) == ProcessLogReturns(l, "Ok", cause, "no_token", None, FALSE)

\* mutant: process_log does not look for the success marker
ProcessLog_ignores_success(l) ==
    /\ pc[l] = "process_log"
    /\ LET c == Classify(notif[l].logs) IN
       IF ~c.is_create
       THEN /\ pc' = [pc EXCEPT ![l] = "returned"]
            /\ out' = [out EXCEPT ![l].res = "Ok", ![l].class = Some(c),
                                  ![l].after_err = FALSE]
            /\ notif' = [notif EXCEPT ![l] = NoNotif]
       ELSE /\ pc' = [pc EXCEPT ![l] = "parse"]
            /\ out' = [out EXCEPT ![l].class = Some(c), ![l].after_err = FALSE]
            /\ notif' = [notif EXCEPT ![l].logs = <<>>]
    /\ UNCHANGED <<limiter, fetch, cnt, config, source, parse, link>>

\* process_log up to the call of parse_pumpfun_creation
ProcessLog(l) ==
    /\ pc[l] = "process_log"
    /\ LET c == Classify(notif[l].logs) IN
       IF ~c.is_success \/ ~c.is_create
       THEN /\ pc' = [pc EXCEPT ![l] = "returned"]
            /\ out' = [out EXCEPT ![l].res = "Ok", ![l].class = Some(c),
                                  ![l].after_err = FALSE]
            /\ notif' = [notif EXCEPT ![l] = NoNotif]
       ELSE /\ pc' = [pc EXCEPT ![l] = "parse"]
            /\ out' = [out EXCEPT ![l].class = Some(c), ![l].after_err = FALSE]
            \* only log.signature is read from here on
            /\ notif' = [notif EXCEPT ![l].logs = <<>>]
    /\ UNCHANGED <<limiter, fetch, cnt, config, source, parse, link>>

\* log.signature.parse().context(..)?, then the fetch of the notifying
\* transaction is called
ParseBegin(l) ==
    /\ pc[l] = "parse"
    /\ LET sig == ParseSignature(notif[l].signature) IN
       IF sig = None
       THEN ParserFails(l, "signature") /\ UNCHANGED <<fetch, cnt>>
       ELSE /\ pc' = [pc EXCEPT ![l] = "fetch_notifying"]
            /\ fetch' = [fetch EXCEPT ![l] = FetchCall(Unwrap(sig))]
            /\ cnt' = [cnt EXCEPT ![l].fetch_calls = @ + 1]
            /\ UNCHANGED <<out, notif, parse>>
    /\ UNCHANGED <<limiter, config, source, link>>

\* mutant: an unavailable notifying transaction is fetched once more
ParseNotifying_fetches_again(l) ==
    /\ pc[l] = "fetch_notifying"
    /\ fetch[l].pc = "done"
    /\ LET res == fetch[l].res IN
       IF res.tag = "Err"
       THEN /\ ParserFails(l, "limiter")
            /\ fetch' = [fetch EXCEPT ![l] = IdleFetch]
            /\ UNCHANGED cnt
       ELSE IF res.val = None
       THEN IF cnt[l].fetch_calls < 2
            THEN /\ fetch' = [fetch EXCEPT ![l] = FetchCall(fetch[l].sig)]
                 /\ cnt' = [cnt EXCEPT ![l].fetch_calls = @ + 1]
                 /\ UNCHANGED <<pc, out, notif, parse>>
            ELSE /\ ParserNoToken(l, "unavailable")
                 /\ fetch' = [fetch EXCEPT ![l] = IdleFetch]
                 /\ UNCHANGED cnt
       ELSE LET mint == ExtractMint(Unwrap(res.val)) IN
            /\ fetch' = [fetch EXCEPT ![l] = IdleFetch]
            /\ IF mint = None THEN ParserNoToken(l, "no_mint") /\ UNCHANGED cnt
               ELSE IF Pubkey_to_string(Unwrap(mint)) = WrappedSol
                    THEN ParserNoToken(l, "wrapped_sol") /\ UNCHANGED cnt
               ELSE /\ pc' = [pc EXCEPT ![l] = "sig_history"]
                    /\ parse' = [parse EXCEPT ![l].mint = mint, ![l].attempt = 1]
                    /\ cnt' = [cnt EXCEPT ![l].get_signatures = @ + 1]
                    /\ UNCHANGED <<out, notif>>
    /\ UNCHANGED <<limiter, config, source, link>>

\* mutant: the wrapped-SOL mint is not rejected
ParseNotifying_keeps_wrapped_sol(l) ==
    /\ pc[l] = "fetch_notifying"
    /\ fetch[l].pc = "done"
    /\ fetch' = [fetch EXCEPT ![l] = IdleFetch]
    /\ LET res == fetch[l].res IN
       IF res.tag = "Err" THEN ParserFails(l, "limiter") /\ UNCHANGED cnt
       ELSE IF res.val = None THEN ParserNoToken(l, "unavailable") /\ UNCHANGED cnt
       ELSE LET mint == ExtractMint(Unwrap(res.val)) IN
            IF mint = None THEN ParserNoToken(l, "no_mint") /\ UNCHANGED cnt
            ELSE /\ pc' = [pc EXCEPT ![l] = "sig_history"]
                 /\ parse' = [parse EXCEPT ![l].mint = mint, ![l].attempt = 1]
                 /\ cnt' = [cnt EXCEPT ![l].get_signatures = @ + 1]
                 /\ UNCHANGED <<out, notif>>
    /\ UNCHANGED <<limiter, config, source, link>>

\* mutant: a transaction that could not be fetched is an error of the parser
ParseNotifying_rpc_error(l) ==
    /\ pc[l] = "fetch_notifying"
    /\ fetch[l].pc = "done"
    /\ fetch' = [fetch EXCEPT ![l] = IdleFetch]
    /\ LET res == fetch[l].res IN
       IF res.tag = "Err" THEN ParserFails(l, "limiter") /\ UNCHANGED cnt
       ELSE IF res.val = None THEN ParserFails(l, "rpc") /\ UNCHANGED cnt
       ELSE LET mint == ExtractMint(Unwrap(res.val)) IN
            IF mint = None THEN ParserNoToken(l, "no_mint") /\ UNCHANGED cnt
            ELSE IF Pubkey_to_string(Unwrap(mint)) = WrappedSol
                 THEN ParserNoToken(l, "wrapped_sol") /\ UNCHANGED cnt
            ELSE /\ pc' = [pc EXCEPT ![l] = "sig_history"]
                 /\ parse' = [parse EXCEPT ![l].mint = mint, ![l].attempt = 1]
                 /\ cnt' = [cnt EXCEPT ![l].get_signatures = @ + 1]
                 /\ UNCHANGED <<out, notif>>
    /\ UNCHANGED <<limiter, config, source, link>>

\* the notifying transaction's fetch has returned: the mint is extracted
\* and the first get_signatures_for_address is issued
ParseNotifying(l) ==
    /\ pc[l] = "fetch_notifying"
    /\ fetch[l].pc = "done"
    /\ fetch' = [fetch EXCEPT ![l] = IdleFetch]
    /\ LET res == fetch[l].res IN
       IF res.tag = "Err" THEN ParserFails(l, "limiter") /\ UNCHANGED cnt
       ELSE IF res.val = None THEN ParserNoToken(l, "unavailable") /\ UNCHANGED cnt
       ELSE LET mint == ExtractMint(Unwrap(res.val)) IN
            IF mint = None THEN ParserNoToken(l, "no_mint") /\ UNCHANGED cnt
            ELSE IF Pubkey_to_string(Unwrap(mint)) = WrappedSol
                 THEN ParserNoToken(l, "wrapped_sol") /\ UNCHANGED cnt
            ELSE /\ pc' = [pc EXCEPT ![l] = "sig_history"]
                 /\ parse' = [parse EXCEPT ![l].mint = mint, ![l].attempt = 1]
                 /\ cnt' = [cnt EXCEPT ![l].get_signatures = @ + 1]
                 /\ UNCHANGED <<out, notif>>
    /\ UNCHANGED <<limiter, config, source, link>>

\* load_mint_info is called: rpc.get_account is issued
CallLoadMint(l, created_at) ==
    /\ pc' = [pc EXCEPT ![l] = "load_mint"]
    /\ parse' = [parse EXCEPT ![l].created_at = Some(created_at),
                              ![l].history = None]
    /\ cnt' = [cnt EXCEPT ![l].get_account = @ + 1]
    /\ UNCHANGED <<out, notif>>

\* one rpc.get_signatures_for_address(&mint) answers
ParseSigAnswer(l) ==
    /\ pc[l] = "sig_history"
    /\ parse[l].history = None
    /\ \E r \in RpcGetSignatures :
         parse' = [parse EXCEPT ![l].history = Some(r)]
    /\ UNCHANGED <<limiter, pc, fetch, cnt, config, source, notif, out, link>>

\* mutant: the newest (first-listed) signature of the answer is taken
ParseSigHistory_takes_newest(l) ==
    /\ pc[l] = "sig_history"
    /\ parse[l].history # None
    /\ LET r == Unwrap(parse[l].history) IN
       IF r.ok /\ Len(r.sigs) > 0
       THEN LET sig == ParseSignature(r.sigs[1]) IN
            IF sig = None
            THEN ParserFails(l, "oldest_signature") /\ UNCHANGED <<fetch, cnt>>
            ELSE /\ pc' = [pc EXCEPT ![l] = "fetch_earliest"]
                 /\ fetch' = [fetch EXCEPT ![l] = FetchCall(Unwrap(sig))]
                 /\ cnt' = [cnt EXCEPT ![l].fetch_calls = @ + 1]
                 /\ parse' = [parse EXCEPT ![l].history = None]
                 /\ UNCHANGED <<out, notif>>
       ELSE IF parse[l].attempt < MaxSigAttempts
            THEN /\ parse' = [parse EXCEPT ![l].attempt = @ + 1,
                                           ![l].history = None]
                 /\ cnt' = [cnt EXCEPT ![l].get_signatures = @ + 1]
                 /\ UNCHANGED <<pc, out, notif, fetch>>
            ELSE CallLoadMint(l, NowTs) /\ UNCHANGED fetch
    /\ UNCHANGED <<limiter, config, source, link>>

\* the match on the answer: a non-empty list ends the loop, its last
\* signature is parsed and that transaction's fetch is called; otherwise
\* the next query is issued after the pause, or after the third the loop
\* ends with no signature
ParseSigHistory(l) ==
    /\ pc[l] = "sig_history"
    /\ parse[l].history # None
    /\ LET r == Unwrap(parse[l].history) IN
       IF r.ok /\ Len(r.sigs) > 0
       THEN LET sig == ParseSignature(r.sigs[Len(r.sigs)]) IN
            IF sig = None
            THEN ParserFails(l, "oldest_signature") /\ UNCHANGED <<fetch, cnt>>
            ELSE /\ pc' = [pc EXCEPT ![l] = "fetch_earliest"]
                 /\ fetch' = [fetch EXCEPT ![l] = FetchCall(Unwrap(sig))]
                 /\ cnt' = [cnt EXCEPT ![l].fetch_calls = @ + 1]
                 /\ parse' = [parse EXCEPT ![l].history = None]
                 /\ UNCHANGED <<out, notif>>
       ELSE IF parse[l].attempt < MaxSigAttempts
            THEN /\ parse' = [parse EXCEPT ![l].attempt = @ + 1,
                                           ![l].history = None]
                 /\ cnt' = [cnt EXCEPT ![l].get_signatures = @ + 1]
                 /\ UNCHANGED <<pc, out, notif, fetch>>
            ELSE CallLoadMint(l, NowTs) /\ UNCHANGED fetch
    /\ UNCHANGED <<limiter, config, source, link>>

\* mutant: an unavailable earliest transaction is fetched once more
ParseEarliest_fetches_again(l) ==
    /\ pc[l] = "fetch_earliest"
    /\ fetch[l].pc = "done"
    /\ LET res == fetch[l].res IN
       IF res.tag = "Err"
       THEN /\ ParserFails(l, "limiter")
            /\ fetch' = [fetch EXCEPT ![l] = IdleFetch]
            /\ UNCHANGED cnt
       ELSE IF res.val = None
       THEN /\ fetch' = [fetch EXCEPT ![l] = FetchCall(fetch[l].sig)]
            /\ cnt' = [cnt EXCEPT ![l].fetch_calls = @ + 1]
            /\ UNCHANGED <<pc, out, notif, parse>>
       ELSE /\ fetch' = [fetch EXCEPT ![l] = IdleFetch]
            /\ IF Unwrap(res.val).block_time # None
               THEN CallLoadMint(l, Unwrap(Unwrap(res.val).block_time))
               ELSE CallLoadMint(l, NowTs)
    /\ UNCHANGED <<limiter, config, source, link>>

\* mutant: an unavailable earliest transaction ends the parser
ParseEarliest_gives_up(l) ==
    /\ pc[l] = "fetch_earliest"
    /\ fetch[l].pc = "done"
    /\ fetch' = [fetch EXCEPT ![l] = IdleFetch]
    /\ LET res == fetch[l].res IN
       IF res.tag = "Err" THEN ParserFails(l, "limiter") /\ UNCHANGED cnt
       ELSE IF res.val = None THEN ParserNoToken(l, "unavailable") /\ UNCHANGED cnt
       ELSE IF Unwrap(res.val).block_time # None
            THEN CallLoadMint(l, Unwrap(Unwrap(res.val).block_time))
            ELSE CallLoadMint(l, NowTs)
    /\ UNCHANGED <<limiter, config, source, link>>

\* the earliest transaction's fetch has returned: created_at is its block
\* time, or now
ParseEarliest(l) ==
    /\ pc[l] = "fetch_earliest"
    /\ fetch[l].pc = "done"
    /\ fetch' = [fetch EXCEPT ![l] = IdleFetch]
    /\ LET res == fetch[l].res IN
       IF res.tag = "Err" THEN ParserFails(l, "limiter") /\ UNCHANGED cnt
       ELSE IF res.val # None /\ Unwrap(res.val).block_time # None
            THEN CallLoadMint(l, Unwrap(Unwrap(res.val).block_time))
            ELSE CallLoadMint(l, NowTs)
    /\ UNCHANGED <<limiter, config, source, link>>

\* rpc.get_account answers inside load_mint_info; fetch_token_info is
\* called next, whatever load_mint_info returned
ParseLoadMint(l) ==
    /\ pc[l] = "load_mint"
    /\ \E r \in RpcGetAccount :
         parse' = [parse EXCEPT ![l].account = Some(r),
                                ![l].mint_data = load_mint_info(r)]
    /\ pc' = [pc EXCEPT ![l] = "token_info"]
    /\ cnt' = [cnt EXCEPT ![l].metadata = @ + 1]
    /\ UNCHANGED <<limiter, fetch, config, source, notif, out, link>>

\* the metadata service answers; the Token is assembled and handed to
\* Processor::process_token_discovered
ParseTokenInfo(l) ==
    /\ pc[l] = "token_info"
    /\ \E reply \in MetadataReplies :
         LET ti == fetch_token_info(reply) IN
         IF ~ti.ok THEN ParserFails(l, "metadata_body") /\ UNCHANGED cnt
         ELSE IF parse[l].mint_data = None
              THEN ParserNoToken(l, "no_mint_data") /\ UNCHANGED cnt
         ELSE /\ pc' = [pc EXCEPT ![l] = "publish"]
              /\ out' = [out EXCEPT
                     ![l].parser = "token",
                     ![l].token = Some(Token(Unwrap(parse[l].mint),
                                             Unwrap(parse[l].created_at),
                                             Unwrap(ti.info),
                                             Unwrap(parse[l].mint_data)))]
              /\ cnt' = [cnt EXCEPT ![l].publish = @ + 1]
              /\ notif' = [notif EXCEPT ![l] = NoNotif]
              /\ parse' = [parse EXCEPT ![l] = NoParse]
    /\ UNCHANGED <<limiter, fetch, config, source, link>>

\* mutant: a Token the sink did not take is handed to it again
Publish_again(l) ==
    /\ pc[l] = "publish"
    /\ \E reply \in SinkReplies :
         IF reply = "published"
         THEN /\ ProcessLogReturns(l, "Ok", "", "token", out[l].token, TRUE)
              /\ UNCHANGED cnt
         ELSE /\ cnt' = [cnt EXCEPT ![l].publish = @ + 1]
              /\ UNCHANGED <<pc, out, notif, parse>>
    /\ UNCHANGED <<limiter, fetch, config, source, link>>

\* publish_event answers: process_token_discovered and process_log return
Publish(l) ==
    /\ pc[l] = "publish"
    /\ \E reply \in SinkReplies :
         IF reply = "published"
         THEN ProcessLogReturns(l, "Ok", "", "token", out[l].token, TRUE)
         ELSE ProcessLogReturns(l, "Err", "sink", "token", out[l].token, FALSE)
    /\ UNCHANGED <<limiter, fetch, cnt, config, source, link>>

\* mutant: listen passes the error of process_log on (`?`) and returns
ListenLoop_propagates(l) ==
    /\ pc[l] = "returned"
    /\ IF out[l].res = "Err"
       THEN ListenFails(l, "notification_error")
       ELSE pc' = [pc EXCEPT ![l] = "stream"] /\ UNCHANGED link
    /\ out' = [out EXCEPT ![l] = [NoOut EXCEPT !.after_err = (out[l].res = "Err")]]
    /\ cnt' = [cnt EXCEPT ![l] = NoCalls]
    /\ UNCHANGED <<limiter, fetch, config, source, notif, parse>>

\* `if let Err(e) = self.process_log(..).await { error!(..) }`: the result
\* is logged and dropped, and the while loop reads the stream again
ListenLoop(l) ==
    /\ pc[l] = "returned"
    /\ pc' = [pc EXCEPT ![l] = "stream"]
    \* after_err, until process_log takes the next notification: the one
    \* before it, on this stream, ended Err
    /\ out' = [out EXCEPT ![l] = [NoOut EXCEPT !.after_err = (out[l].res = "Err")]]
    /\ cnt' = [cnt EXCEPT ![l] = NoCalls]
    /\ UNCHANGED <<limiter, fetch, config, source, notif, parse, link>>

(***************************************************************************)
(* Spec: the program as main starts it, one listener on the pool of        *)
(* MainPermits permits.                                                    *)
(***************************************************************************)
Init ==
    /\ limiter = [permits |-> MainPermits, closed |-> FALSE]
    /\ pc = [l \in 1..NumListeners |-> "connect"]
    /\ fetch = [l \in 1..NumListeners |-> IdleFetch]
    /\ cnt = [l \in 1..NumListeners |-> NoCalls]
    /\ config \in {[pump_fun |-> "PumpProgram"], [pump_fun |-> "not-a-pubkey"]}
    /\ source = NoSource
    /\ notif = [l \in 1..NumListeners |-> NoNotif]
    /\ parse = [l \in 1..NumListeners |-> NoParse]
    /\ out = [l \in 1..NumListeners |-> NoOut]
    /\ link = [l \in 1..NumListeners |-> NoLink]

Next ==
    \/ \E l \in Procs : ListenConnect(l)
    \/ \E l \in Procs : ListenSubscribe(l)
    \/ \E l \in Procs : StartSleep(l)
    \/ \E l \in Procs : StreamNext(l)
    \/ \E l \in Procs : StreamEnd(l)
    \/ \E l \in Procs : FilterLog(l)
    \/ \E l \in Procs : ProcessLog(l)
    \/ \E l \in Procs : ParseBegin(l)
    \/ \E l \in Procs : FetchAcquire(l)
    \/ \E l \in Procs : FetchAttempt1(l)
    \/ \E l \in Procs : FetchAttempt2(l)
    \/ \E l \in Procs : FetchAttempt3(l)
    \/ \E l \in Procs : ParseNotifying(l)
    \/ \E l \in Procs : ParseSigAnswer(l)
    \/ \E l \in Procs : ParseSigHistory(l)
    \/ \E l \in Procs : ParseEarliest(l)
    \/ \E l \in Procs : ParseLoadMint(l)
    \/ \E l \in Procs : ParseTokenInfo(l)
    \/ \E l \in Procs : Publish(l)
    \/ \E l \in Procs : ListenLoop(l)

Spec == Init /\ [][Next]_vars

(***************************************************************************)
(* SpecLive: Spec where every awaited call of a listener returns: timers   *)
(* fire, the RPC node, the metadata service and the sink answer (with a    *)
(* value or an error), and the stream yields an item or ends.              *)
(***************************************************************************)
ListenerStep(l) ==
    \/ ListenConnect(l) \/ ListenSubscribe(l) \/ StartSleep(l)
    \/ StreamNext(l) \/ StreamEnd(l) \/ FilterLog(l) \/ ProcessLog(l)
    \/ ParseBegin(l) \/ FetchAcquire(l) \/ FetchAttempt1(l)
    \/ FetchAttempt2(l) \/ FetchAttempt3(l) \/ ParseNotifying(l)
    \/ ParseSigAnswer(l) \/ ParseSigHistory(l)
    \/ ParseEarliest(l) \/ ParseLoadMint(l)
    \/ ParseTokenInfo(l) \/ Publish(l) \/ ListenLoop(l)

SpecLive ==
    Init /\ [][Next]_vars /\ \A l \in 1..NumListeners : WF_vars(ListenerStep(l))

(***************************************************************************)
(* SpecPool: NumCallers tasks call fetch_transaction_with_retry again and  *)
(* again on one pool of PoolCapacity permits.                              *)
(***************************************************************************)
PoolSigs == {102}

PoolCall(c) ==
    /\ pc[c] = "pool_idle"
    /\ \E s \in PoolSigs : fetch' = [fetch EXCEPT ![c] = FetchCall(s)]
    /\ pc' = [pc EXCEPT ![c] = "pool_wait"]
    /\ cnt' = [cnt EXCEPT ![c] = [NoCalls EXCEPT !.fetch_calls = 1]]
    /\ UNCHANGED <<limiter, lvars>>

PoolReturn(c) ==
    /\ pc[c] = "pool_wait"
    /\ fetch[c].pc = "done"
    /\ pc' = [pc EXCEPT ![c] = "pool_idle"]
    /\ fetch' = [fetch EXCEPT ![c] = IdleFetch]
    /\ UNCHANGED <<limiter, cnt, lvars>>

InitPool ==
    /\ limiter = [permits |-> PoolCapacity, closed |-> FALSE]
    /\ pc = [c \in 1..NumCallers |-> "pool_idle"]
    /\ fetch = [c \in 1..NumCallers |-> IdleFetch]
    /\ cnt = [c \in 1..NumCallers |-> NoCalls]
    /\ config = [pump_fun |-> "PumpProgram"]
    /\ source = NoSource
    /\ notif = [c \in 1..NumCallers |-> NoNotif]
    /\ parse = [c \in 1..NumCallers |-> NoParse]
    /\ out = [c \in 1..NumCallers |-> NoOut]
    /\ link = [c \in 1..NumCallers |-> NoLink]

NextPool ==
    \/ \E c \in Procs : PoolCall(c)
    \/ \E c \in Procs : FetchAcquire(c)
    \/ \E c \in Procs : FetchAttempt1(c)
    \/ \E c \in Procs : FetchAttempt2(c)
    \/ \E c \in Procs : FetchAttempt3(c)
    \/ \E c \in Procs : PoolReturn(c)

SpecPool == InitPool /\ [][NextPool]_vars

(***************************************************************************)
(* SpecShared: SharedListeners listeners share one pool of SharedCapacity  *)
(* permits. Each is reduced to the RPC round trips parse_pumpfun_creation  *)
(* makes: the fetch of the notifying transaction, up to MaxSigAttempts     *)
(* signature queries, the fetch of the earliest transaction when one is    *)
(* found and the read of the mint account. The transactions' content is    *)
(* left out: a fetched notifying transaction is taken to hold a mint. cnt   *)
(* counts the requests of the fetch in progress only.                      *)
(***************************************************************************)
\* listeners sharing the pool
SharedListeners == 2
\* permits of the shared pool, fewer than its listeners
SharedCapacity == 1

\* the fetch has returned: Ok(None) ends the parser, a transaction leads
\* to the first rpc.get_signatures_for_address, made without a permit
SharedFetched(c) ==
    /\ pc[c] = "pool_wait"
    /\ fetch[c].pc = "done"
    /\ fetch' = [fetch EXCEPT ![c] = IdleFetch]
    /\ IF fetch[c].res.val = None
       THEN /\ pc' = [pc EXCEPT ![c] = "pool_idle"]
            /\ UNCHANGED parse
       ELSE /\ pc' = [pc EXCEPT ![c] = "sig_history"]
            /\ parse' = [parse EXCEPT ![c].attempt = 1]
    /\ cnt' = [cnt EXCEPT ![c] = NoCalls]
    /\ UNCHANGED <<limiter, config, source, notif, out, link>>

\* mutant: the signature query takes a permit of the pool and keeps it
SharedSigHistory_takes_permit(c) ==
    /\ pc[c] = "sig_history"
    /\ limiter.permits > 0
    /\ limiter' = [limiter EXCEPT !.permits = @ - 1]
    /\ \E found \in BOOLEAN :
         IF found
         THEN /\ pc' = [pc EXCEPT ![c] = "pool_wait_earliest"]
              /\ fetch' = [fetch EXCEPT ![c] = FetchCall(102)]
              /\ parse' = [parse EXCEPT ![c] = NoParse]
         ELSE IF parse[c].attempt < MaxSigAttempts
         THEN /\ parse' = [parse EXCEPT ![c].attempt = @ + 1]
              /\ UNCHANGED <<pc, fetch>>
         ELSE /\ pc' = [pc EXCEPT ![c] = "load_mint"]
              /\ parse' = [parse EXCEPT ![c] = NoParse]
              /\ UNCHANGED fetch
    /\ UNCHANGED cnt
    /\ UNCHANGED <<config, source, notif, out, link>>

\* a signature query answers, all without a permit: with signatures, and
\* the fetch of the oldest one's transaction is called; with nothing, and
\* the next query is made or, after the last one, rpc.get_account of
\* load_mint_info
SharedSigHistory(c) ==
    /\ pc[c] = "sig_history"
    /\ \E found \in BOOLEAN :
         IF found
         THEN /\ pc' = [pc EXCEPT ![c] = "pool_wait_earliest"]
              /\ fetch' = [fetch EXCEPT ![c] = FetchCall(102)]
              /\ parse' = [parse EXCEPT ![c] = NoParse]
         ELSE IF parse[c].attempt < MaxSigAttempts
         THEN /\ parse' = [parse EXCEPT ![c].attempt = @ + 1]
              /\ UNCHANGED <<pc, fetch>>
         ELSE /\ pc' = [pc EXCEPT ![c] = "load_mint"]
              /\ parse' = [parse EXCEPT ![c] = NoParse]
              /\ UNCHANGED fetch
    /\ UNCHANGED cnt
    /\ UNCHANGED <<limiter, config, source, notif, out, link>>

\* the fetch of the earliest transaction has returned: load_mint_info
\* issues rpc.get_account
SharedEarliest(c) ==
    /\ pc[c] = "pool_wait_earliest"
    /\ fetch[c].pc = "done"
    /\ fetch' = [fetch EXCEPT ![c] = IdleFetch]
    /\ pc' = [pc EXCEPT ![c] = "load_mint"]
    /\ cnt' = [cnt EXCEPT ![c] = NoCalls]
    /\ UNCHANGED <<limiter, config, source, notif, parse, out, link>>

\* rpc.get_account answers: the parser goes on without any RPC call
SharedLoadMint(c) ==
    /\ pc[c] = "load_mint"
    /\ pc' = [pc EXCEPT ![c] = "pool_idle"]
    /\ UNCHANGED <<limiter, fetch, cnt, config, source, notif, parse, out, link>>

NextShared ==
    \/ \E c \in Procs : PoolCall(c)
    \/ \E c \in Procs : FetchAcquire(c)
    \/ \E c \in Procs : FetchAttempt1(c)
    \/ \E c \in Procs : FetchAttempt2(c)
    \/ \E c \in Procs : FetchAttempt3(c)
    \/ \E c \in Procs : SharedFetched(c)
    \/ \E c \in Procs : SharedSigHistory(c)
    \/ \E c \in Procs : SharedEarliest(c)
    \/ \E c \in Procs : SharedLoadMint(c)

InitShared ==
    /\ limiter = [permits |-> SharedCapacity, closed |-> FALSE]
    /\ pc = [c \in 1..SharedListeners |-> "pool_idle"]
    /\ fetch = [c \in 1..SharedListeners |-> IdleFetch]
    /\ cnt = [c \in 1..SharedListeners |-> NoCalls]
    /\ config = [pump_fun |-> "PumpProgram"]
    /\ source = NoSource
    /\ notif = [c \in 1..SharedListeners |-> NoNotif]
    /\ parse = [c \in 1..SharedListeners |-> NoParse]
    /\ out = [c \in 1..SharedListeners |-> NoOut]
    /\ link = [c \in 1..SharedListeners |-> NoLink]

SpecShared == InitShared /\ [][NextShared]_vars

\* the RPC side of a fetch: each request issued is answered
FetchAnswered(c) == FetchAttempt1(c) \/ FetchAttempt2(c) \/ FetchAttempt3(c)

\* SpecShared where every get-transaction request is answered and the
\* semaphore hands its permits out fairly: a call that finds a permit free
\* again and again gets one (tokio's Semaphore queues its waiters)
SpecSharedLive ==
    /\ InitShared /\ [][NextShared]_vars
    /\ \A c \in 1..SharedListeners :
         SF_vars(FetchAcquire(c)) /\ WF_vars(FetchAnswered(c))

(***************************************************************************)
(* SpecSource: the conversions of TokenSource applied to a variant or to a *)
(* text: a variant is written out (Display or serde), the text may be      *)
(* given another letter case, and a text is parsed (FromStr).              *)
(***************************************************************************)
ovars == <<limiter, pc, fetch, cnt, config, notif, parse, out, link>>

\* v.to_string()
SourceToString(v) ==
    /\ source.op = "none"
    /\ source' = [op |-> "to_string", variant |-> Some(v),
                  text |-> TokenSource_fmt(v), result |-> None]
    /\ UNCHANGED ovars

\* serde_json::to_string(&v), without the quotes
SourceSerialize(v) ==
    /\ source.op = "none"
    /\ source' = [op |-> "serialize", variant |-> Some(v),
                  text |-> TokenSource_serialize(v), result |-> None]
    /\ UNCHANGED ovars

\* the written form is handed on in another letter case
SourceRecase(up) ==
    /\ source.op \in {"to_string", "serialize"}
    /\ source.result = None
    /\ source' = [source EXCEPT !.op = "recased", !.text = Recase(source.text, up)]
    /\ UNCHANGED ovars

\* a text that is no form of a variant arrives
SourceInput(t) ==
    /\ source.op = "none"
    /\ source' = [op |-> "input", variant |-> None, text |-> t, result |-> None]
    /\ UNCHANGED ovars

\* text.parse::<TokenSource>()
SourceParse ==
    /\ source.op # "none"
    /\ source.result = None
    /\ source' = [source EXCEPT !.result = Some(TokenSource_from_str(source.text))]
    /\ UNCHANGED ovars

\* the conversion in hand is over
SourceDone ==
    /\ source.result # None
    /\ source' = NoSource
    /\ UNCHANGED ovars

NextSource ==
    \/ \E v \in TokenSourceVariants : SourceToString(v)
    \/ \E v \in TokenSourceVariants : SourceSerialize(v)
    \/ \E up \in SUBSET (1..Len(source.text)) : SourceRecase(up)
    \/ \E t \in OtherTexts : SourceInput(t)
    \/ SourceParse
    \/ SourceDone

SpecSource == Init /\ [][NextSource]_vars

(***************************************************************************)
(* Properties of the permit pool (SpecPool).                               *)
(***************************************************************************)
\* the calls with a get-transaction request in flight
InFlight == {c \in Procs : fetch[c].pc \in Attempts}
\* the calls holding a permit
Holders == {c \in Procs : fetch[c].permit}

\* C1: with any number of callers on one pool of capacity C, at most C
\* get-transaction requests are in flight, and the permits held plus the
\* permits available are C.
C1_PoolBoundsInFlight ==
    /\ Cardinality(InFlight) <= PoolCapacity
    /\ Cardinality(Holders) + limiter.permits = PoolCapacity

\* the pool is exhausted by calls in flight while another caller waits
C1_Witness ==
    /\ limiter.permits = 0
    /\ Cardinality(InFlight) = PoolCapacity
    /\ \E c \in Procs : fetch[c].pc = "acquire"

\* C5: a call that acquired a permit holds it across all of its attempts
\* and has released it exactly once when it returns, on every exit path; the
\* permits a finished call leaves available are those it found, never more
\* than the capacity.
C5_PermitReleasedOnce ==
    /\ \A c \in Procs :
         LET f == fetch[c] IN
         /\ f.pc \in {"idle", "acquire"} => ~f.permit /\ f.nacq = 0 /\ f.nrel = 0
         /\ f.pc \in Attempts => f.permit /\ f.nacq = 1 /\ f.nrel = 0
         /\ f.pc = "done" => ~f.permit /\ f.nacq = 1 /\ f.nrel = 1
    /\ limiter.permits <= PoolCapacity
    /\ limiter.permits = PoolCapacity - Cardinality(Holders)

\* a call has returned after three version mismatches and the pool is full
C5_Witness ==
    \E c \in Procs :
        /\ fetch[c].pc = "done"
        /\ Len(fetch[c].hist) = 3
        /\ fetch[c].hist[3].outcome = "version"
        /\ limiter.permits = PoolCapacity

(***************************************************************************)
(* Properties of one fetch_transaction_with_retry call (Spec).             *)
(***************************************************************************)
\* the requests a call has issued: those answered and the one in flight
Issued(f) == Len(f.hist) + (IF f.pc \in Attempts THEN 1 ELSE 0)
VersionFailed(f, n) == Len(f.hist) >= n /\ f.hist[n].outcome = "version"
OtherFailed(f, n) == Len(f.hist) >= n /\ f.hist[n].outcome \in {"null", "other"}

\* C2: attempt 2 (version 0 accepted) is issued iff attempt 1 failed with a
\* version mismatch, attempt 3 iff attempts 1 and 2 both did; any other
\* error on attempt 1 or 2 ends the call at once with "unavailable"; no call
\* issues more than 3 requests.
C2_AttemptsOrderedAndGuarded ==
    \A c \in Procs :
        LET f == fetch[c] IN
        /\ Issued(f) <= 3
        /\ Issued(f) >= 2 <=> VersionFailed(f, 1)
        /\ Issued(f) >= 3 <=> VersionFailed(f, 1) /\ VersionFailed(f, 2)
        /\ \A n \in {1, 2} :
             OtherFailed(f, n) =>
                 f.pc = "done" /\ Len(f.hist) = n /\ f.res = OkRes(None)
        /\ \A n \in 1..Len(f.hist) :
             f.hist[n].max_supported_transaction_version
                 = (IF n = 2 THEN Some(0) ELSE None)

\* attempt 3 is in flight after two version mismatches
C2_Witness ==
    \E c \in Procs :
        /\ fetch[c].pc = "attempt3"
        /\ VersionFailed(fetch[c], 1)
        /\ VersionFailed(fetch[c], 2)

\* C3: whatever the endpoint answers on the (up to three) attempts, the call
\* returns a value, the transaction or "unavailable", never an error; three
\* version mismatches give "unavailable".
C3_NeverAnError ==
    \A c \in Procs :
        LET f == fetch[c] IN
        f.pc = "done" =>
            /\ f.res.tag = "Ok"
            /\ Len(f.hist) \in 1..3
            /\ f.hist[Len(f.hist)].outcome # "ok" => f.res.val = None
            /\ f.hist[Len(f.hist)].outcome = "ok" => f.res.val # None

\* a call has returned "unavailable" after three version mismatches
C3_Witness ==
    \E c \in Procs :
        /\ fetch[c].pc = "done"
        /\ \A n \in 1..3 : VersionFailed(fetch[c], n)
        /\ fetch[c].res = OkRes(None)

\* C4: when attempt 1 fails with a version mismatch and attempt 2 succeeds,
\* the call returns exactly the transaction attempt 2 obtained and attempt 3
\* is never issued; a success of attempt 1 returns the attempt-1 transaction
\* with no further attempt.
C4_ReturnsTheSuccessfulAttempt ==
    \A c \in Procs :
        LET f == fetch[c] IN
        \A n \in {1, 2} :
            (Len(f.hist) >= n /\ f.hist[n].outcome = "ok") =>
                /\ f.pc = "done"
                /\ Issued(f) = n
                /\ f.hist[n].tx # None
                /\ f.res = OkRes(f.hist[n].tx)

\* attempt 2 has succeeded after a version mismatch of attempt 1, with a
\* transaction that names a mint
C4_Witness ==
    \E c \in Procs :
        /\ fetch[c].pc = "done"
        /\ VersionFailed(fetch[c], 1)
        /\ Len(fetch[c].hist) = 2
        /\ fetch[c].hist[2].outcome = "ok"
        /\ fetch[c].res.val # None
        /\ ExtractMint(Unwrap(fetch[c].res.val)) # None

(***************************************************************************)
(* Properties of the listener (Spec, SpecLive).                            *)
(***************************************************************************)
\* C6: a notification in which no line contains the success marker, or no
\* line contains a creation marker, makes process_log return Ok at once:
\* no fetch, signature query, account read, metadata lookup or publish is
\* made for it and no permit moves, whatever the other flags are.
C6_DiscardedWithoutCalls ==
    [][\A l \in 1..NumListeners :
         ( /\ pc[l] = "process_log"
           /\ \/ ~AnyLine(notif[l].logs, <<"success">>)
              \/ \A m \in CreateMarkers : ~AnyLine(notif[l].logs, m) )
         => /\ pc'[l] = "returned"
            /\ out'[l].res = "Ok"
            /\ cnt[l] = NoCalls /\ cnt'[l] = NoCalls
            /\ fetch'[l] = IdleFetch
            /\ limiter' = limiter]_vars

\* a creation without the success marker was discarded with no call made
C6_Witness ==
    \E l \in Procs :
        /\ pc[l] = "returned"
        /\ out[l].class # None
        /\ ~Unwrap(out[l].class).is_success
        /\ Unwrap(out[l].class).is_create
        /\ out[l].res = "Ok"
        /\ cnt[l] = NoCalls

\* C7: while streaming, a notification whose processing returned an error
\* leaves the listener as an Ok return leaves it: reading the same stream,
\* no reconnect, no permit held, nothing of the notification kept.
C7_ErrorLeavesStreamIntact ==
    [][\A l \in 1..NumListeners :
         /\ (out'[l].res = "Err" /\ out[l].res # "Err")
            => /\ pc'[l] = "returned"
               /\ link'[l] = link[l]
         /\ (pc[l] = "returned" /\ out[l].res = "Err")
            => /\ pc'[l] = "stream"
               /\ link[l] = NoLink /\ link'[l] = NoLink
               /\ [out'[l] EXCEPT !.after_err = FALSE] = NoOut
               /\ cnt'[l] = NoCalls
               /\ fetch'[l] = IdleFetch
               /\ notif'[l] = NoNotif
               /\ parse'[l] = NoParse
               /\ limiter' = [permits |-> MainPermits, closed |-> FALSE]
               /\ config' = config]_vars

\* the stream has delivered the notification after a failed one, a
\* successful creation, and process_log is called with it
C7_Witness ==
    \E l \in Procs :
        /\ out[l].after_err
        /\ pc[l] = "process_log"
        /\ Classify(notif[l].logs).is_success
        /\ Classify(notif[l].logs).is_create
        /\ link[l] = NoLink

\* C8: every connection attempt but the first is made after the delay of
\* ReconnectDelaySecs seconds has elapsed since the disconnect (violated:
\* after the stream has ended, listen returns Ok and start calls it again
\* without sleeping).
C8_EveryReconnectDelayed ==
    \A l \in Procs :
        (pc[l] = "connect" /\ link[l].reason # "none")
        => link[l].waited = ReconnectDelaySecs

\* the supervisory loop is attempting a connection or reading the stream
AtRest(l) == pc[l] \in {"connect", "stream"}
\* listen has returned an error to start
LinkFailed(l) ==
    /\ pc[l] = "sleep"
    /\ link[l].reason \in {"connect_failed", "subscribe_failed", "bad_program_id"}

NotifyingTx(l) ==
    IF /\ pc[l] = "fetch_notifying" /\ fetch[l].pc = "done"
       /\ fetch[l].res.tag = "Ok"
    THEN fetch[l].res.val ELSE None
\* the mint the scan of the notifying transaction yields
ExtractedMint(l) ==
    IF NotifyingTx(l) = None THEN None ELSE ExtractMint(Unwrap(NotifyingTx(l)))
\* the notification made none of the calls that follow the mint extraction
NoCallAfterExtraction(c) ==
    /\ c.fetch_calls = 1 /\ c.get_signatures = 0 /\ c.get_account = 0
    /\ c.metadata = 0 /\ c.publish = 0

\* C11: no Token and no mint kept by the parser has an empty address or
\* the wrapped-SOL address; when the extracted mint is wrapped SOL the
\* parser returns "no token" with no signature query, account read,
\* metadata lookup or publish made.
C11_WrappedSolRejected ==
    [][\A l \in 1..NumListeners :
         /\ out'[l].token # None
            => Unwrap(out'[l].token).mint_address \notin {"", WrappedSol}
         /\ parse'[l].mint # None
            => Pubkey_to_string(Unwrap(parse'[l].mint)) \notin {"", WrappedSol}
         /\ ( /\ ExtractedMint(l) # None
              /\ Pubkey_to_string(Unwrap(ExtractedMint(l))) = WrappedSol )
            => /\ pc'[l] = "returned"
               /\ out'[l].res = "Ok" /\ out'[l].parser = "no_token"
               /\ out'[l].token = None
               /\ NoCallAfterExtraction(cnt'[l])
       ]_vars

\* the parser returned "no token" for a wrapped-SOL mint
C11_Witness ==
    \E l \in Procs :
        /\ pc[l] = "returned"
        /\ out[l].res = "Ok" /\ out[l].cause = "wrapped_sol"
        /\ NoCallAfterExtraction(cnt[l])

\* a parsed instruction of the associated-token-account program whose type
\* is createIdempotent
IsAtaCreateIdempotent(pi) ==
    /\ pi.parsed
    /\ pi.program = "spl-associated-token-account"
    /\ pi.program_id = AtaProgramId
    /\ pi.type = Some("createIdempotent")
NoCreateIdempotent(tx) ==
    \/ tx.message # "parsed"
    \/ \A i \in 1..Len(tx.instructions) : ~IsAtaCreateIdempotent(tx.instructions[i])

\* C12: when the fetched notifying transaction holds no parsed
\* createIdempotent instruction of the associated-token-account program,
\* the parser returns "no token" without error and makes no signature
\* query, account read, metadata lookup, second fetch or publish.
C12_NoCreateIdempotentNoToken ==
    [][\A l \in 1..NumListeners :
         (NotifyingTx(l) # None /\ NoCreateIdempotent(Unwrap(NotifyingTx(l))))
         => /\ pc'[l] = "returned"
            /\ out'[l].res = "Ok" /\ out'[l].parser = "no_token"
            /\ out'[l].token = None
            /\ NoCallAfterExtraction(cnt'[l])
            /\ fetch'[l] = IdleFetch
       ]_vars

\* the parser returned "no token" because the scan found no mint
C12_Witness ==
    \E l \in Procs :
        /\ pc[l] = "returned"
        /\ out[l].res = "Ok" /\ out[l].cause = "no_mint"
        /\ out[l].parser = "no_token"
        /\ NoCallAfterExtraction(cnt[l])

\* C13: when the fetch of the notifying transaction returns "unavailable"
\* (Ok(None)), the parser returns "no token" without error: no Token
\* reaches the sink and no call is made after that fetch.
C13_UnavailableNoToken ==
    [][\A l \in 1..NumListeners :
         ( /\ pc[l] = "fetch_notifying" /\ fetch[l].pc = "done"
           /\ fetch[l].res = OkRes(None) )
         => /\ pc'[l] = "returned"
            /\ out'[l].res = "Ok" /\ out'[l].parser = "no_token"
            /\ out'[l].token = None /\ ~out'[l].published
            /\ cnt'[l] = cnt[l]
            /\ NoCallAfterExtraction(cnt'[l])
            /\ fetch'[l] = IdleFetch
       ]_vars

\* the parser returned "no token" for an unavailable transaction, after
\* the fetch had used all its attempts
C13_Witness ==
    \E l \in Procs :
        /\ pc[l] = "returned"
        /\ out[l].res = "Ok" /\ out[l].cause = "unavailable"
        /\ cnt[l].get_transaction = 3
        /\ NoCallAfterExtraction(cnt[l])

\* C14: the metadata service is consulted only after the mint account has
\* been decoded: a mint that fails to decode ends in "no token" with no
\* metadata request made (violated: fetch_token_info is called before the
\* result of load_mint_info is looked at).
C14_MetadataOnlyAfterDecode ==
    \A l \in Procs :
        /\ pc[l] = "token_info" => parse[l].mint_data # None
        /\ out[l].cause = "no_mint_data" => cnt[l].metadata = 0

\* C15: creation-time resolution never ends the parser: once the
\* signature history has been queried, the parser reaches the read of the
\* mint account (violated: an oldest signature that does not parse is
\* returned as an error).
C15_CreationTimeNeverBlocks ==
    \A l \in Procs :
        (pc[l] = "returned" /\ cnt[l].get_signatures > 0)
        => cnt[l].get_account = 1

\* the earliest transaction's fetch has returned
EarliestDone(l) == pc[l] = "fetch_earliest" /\ fetch[l].pc = "done"
\* it returned a transaction with a block time
EarliestBlockTime(l) ==
    IF fetch[l].res.val = None THEN None
    ELSE Unwrap(fetch[l].res.val).block_time

\* C15, what the code does: creation-time resolution ends the parser in one
\* case only, an oldest signature that does not parse, which is returned
\* as an error. A history that is empty or fails on all MaxSigAttempts
\* queries, an unavailable earliest transaction and an absent block time
\* make the creation time the current time, a present block time makes it
\* that time, and the parser goes on to read the mint account.
C15_CreationTimeFallsBack ==
    [][\A l \in 1..NumListeners :
         /\ (pc[l] = "sig_history" /\ pc'[l] # "sig_history")
            => \/ /\ pc'[l] = "fetch_earliest"
                  /\ cnt'[l].fetch_calls = 2
               \/ /\ pc'[l] = "load_mint"
                  /\ parse[l].attempt = MaxSigAttempts
                  /\ cnt'[l].get_signatures = MaxSigAttempts
                  /\ parse'[l].created_at = Some(NowTs)
               \/ /\ pc'[l] = "returned"
                  /\ out'[l].res = "Err" /\ out'[l].cause = "oldest_signature"
         /\ (pc[l] = "sig_history" /\ pc'[l] = "sig_history")
            => parse'[l].attempt <= MaxSigAttempts
         /\ EarliestDone(l)
            => /\ pc'[l] = "load_mint"
               /\ parse'[l].created_at =
                     (IF EarliestBlockTime(l) = None THEN Some(NowTs)
                      ELSE EarliestBlockTime(l))
               /\ parse'[l].mint = parse[l].mint
         /\ pc'[l] = "load_mint" /\ pc[l] # "load_mint"
            => cnt'[l].get_account = 1 /\ parse'[l].mint # None
       ]_vars

\* the earliest transaction was unavailable: the creation time is the
\* current time and the mint account is being read
C15_Witness ==
    \E l \in Procs :
        /\ pc[l] = "load_mint"
        /\ cnt[l].fetch_calls = 2
        /\ cnt[l].get_transaction = 6
        /\ parse[l].created_at = Some(NowTs)
        /\ cnt[l].get_account = 1

\* C16: the metadata lookup never fails the pipeline: once the metadata
\* service has been asked, the parser returns a Token, or "no token" for a
\* mint that did not decode, never an error (violated: the unreadable body
\* of a successful response is returned as an error).
C16_MetadataNeverFails ==
    \A l \in Procs :
        (pc[l] = "returned" /\ cnt[l].metadata = 1)
        => \/ out[l].parser = "token"
           \/ out[l].parser = "no_token" /\ out[l].cause = "no_mint_data"

(***************************************************************************)
(* Properties of load_mint_info and of the Token (Spec).                   *)
(***************************************************************************)
\* the fields MintInfo copies from the unpacked mint
SameMintFields(info, data) ==
    /\ info.decimals = data.decimals /\ info.supply = data.supply
    /\ info.mint_authority = data.mint_authority
    /\ info.freeze_authority = data.freeze_authority

\* C17: load_mint_info never returns an error. It returns no mint when the
\* account cannot be read, when its owner is neither token program
\* (whatever the bytes are) and when the bytes do not unpack against the
\* owner's layout; it returns a MintInfo, tagged with the owner's variant
\* and holding the unpacked fields, only for a known owner whose bytes
\* unpack.
C17_MintDecodingTotal ==
    \A l \in Procs :
        /\ pc[l] = "token_info" <=> parse[l].account # None
        /\ parse[l].account # None =>
             LET r == Unwrap(parse[l].account)
                 m == parse[l].mint_data
             IN /\ ~r.ok => m = None
                /\ (r.ok /\ r.owner \notin {"spl_token", "spl_token_2022"})
                   => m = None
                /\ (r.ok /\ r.owner = "spl_token")
                   => IF LegacyMint_unpack(r.data) = None THEN m = None
                      ELSE /\ m # None
                           /\ Unwrap(m).program = "Token"
                           /\ SameMintFields(Unwrap(m), r.data)
                /\ (r.ok /\ r.owner = "spl_token_2022")
                   => IF Mint2022_unpack(r.data) = None THEN m = None
                      ELSE /\ m # None
                           /\ Unwrap(m).program = "Token2022"
                           /\ SameMintFields(Unwrap(m), r.data)

\* an account owned by another program, with the bytes of a valid mint,
\* gave no mint
C17_Witness ==
    \E l \in Procs :
        /\ parse[l].account # None
        /\ Unwrap(parse[l].account).ok
        /\ Unwrap(parse[l].account).owner = "system_program"
        /\ LegacyMint_unpack(Unwrap(parse[l].account).data) # None
        /\ parse[l].mint_data = None
        /\ pc[l] = "token_info"

\* the Token t carries the fields of the MintInfo m and no enrichment
TokenOfMintInfo(t, m) ==
    /\ t.source = "Pumpfun"
    /\ t.decimals = m.decimals
    /\ t.total_supply = m.supply
    /\ t.mint_authority_disabled = (m.mint_authority = None)
    /\ t.freeze_authority_disabled = (m.freeze_authority = None)
    /\ t.raydium_pool = None /\ t.pump_fun_bonding_curve = None
    /\ t.orca_pool = None /\ t.meteora_pool = None /\ t.four_meme_pool = None
    /\ t.base_pair = None /\ t.bsc_pair = None
    /\ t.score = None /\ t.risk_level = None

\* C18: a Token is produced only by the parser's last step, from a decoded
\* MintInfo: its source is Pumpfun, its decimals and total supply are the
\* MintInfo's, each authority-disabled flag is true exactly when that
\* authority is absent, and the pool, pair, score and risk-level fields
\* are absent; the Token is not altered on its way to the sink.
C18_TokenFields ==
    [][\A l \in 1..NumListeners :
         /\ (out'[l].token # None /\ out[l].token = None)
            => /\ pc[l] = "token_info"
               /\ parse[l].mint_data # None
               /\ TokenOfMintInfo(Unwrap(out'[l].token), Unwrap(parse[l].mint_data))
         /\ (out'[l].token # None /\ out[l].token # None)
            => out'[l].token = out[l].token
       ]_vars

\* a Token of a mint whose authorities are both present was published
C18_Witness ==
    \E l \in Procs :
        /\ out[l].token # None
        /\ out[l].published
        /\ ~Unwrap(out[l].token).mint_authority_disabled
        /\ ~Unwrap(out[l].token).freeze_authority_disabled
        /\ Unwrap(out[l].token).decimals = 9

(***************************************************************************)
(* Properties of the listener's processing order (Spec).                   *)
(***************************************************************************)
\* nothing of a notification is in processing at listener l
NothingInProcessing(l) ==
    /\ notif[l] = NoNotif /\ parse[l] = NoParse
    /\ fetch[l] = IdleFetch /\ cnt[l] = NoCalls
    /\ out[l].res = "none" /\ out[l].token = None

\* C19: a listener processes one notification at a time, in the order of
\* arrival: a notification is read from the stream only when the chain of
\* the one before it has returned and nothing of it is left, and the
\* notification in processing is never replaced by another one.
C19_OneNotificationAtATime ==
    [][\A l \in 1..NumListeners :
         /\ (notif[l] = NoNotif /\ notif'[l] # NoNotif)
            => /\ pc[l] = "stream" /\ pc'[l] = "filter"
               /\ NothingInProcessing(l)
         /\ (notif[l] # NoNotif /\ notif'[l] # notif[l])
            => \/ notif'[l] = NoNotif
               \/ notif'[l] = [notif[l] EXCEPT !.logs = <<>>]
         /\ (pc[l] \notin {"stream", "connect", "subscribe", "sleep"}
             /\ pc'[l] = "stream")
            => notif'[l] = NoNotif /\ parse'[l] = NoParse /\ fetch'[l] = IdleFetch
       ]_vars

\* a notification is read after the one before it had returned an error
\* and that result was handled
C19_Witness ==
    \E l \in Procs :
        /\ pc[l] = "filter"
        /\ notif[l] # NoNotif
        /\ out[l].after_err
        /\ cnt[l] = NoCalls

(***************************************************************************)
(* Properties of the pool shared by several listeners (SpecShared).        *)
(***************************************************************************)
\* the listeners with an RPC round trip of any kind in flight
RpcInFlight ==
    {c \in Procs : fetch[c].pc \in Attempts \/ pc[c] \in {"sig_history", "load_mint"}}

\* C20 as stated: the RPC round trips in flight, get-transaction,
\* get-signatures-for-address and get-account together, never exceed the
\* capacity of the pool (violated: the signature queries and the account
\* read are made without a permit).
C20_PoolBoundsAllRpc == Cardinality(RpcInFlight) <= SharedCapacity

\* C20, amended: the pool bounds the get-transaction round trips only. At
\* most SharedCapacity of them are in flight, each under a permit; a
\* listener querying the signature history or reading the mint account
\* holds no permit and waits for none, so those round trips are bounded by
\* the number of listeners, one each, not by the pool.
C20_PoolBoundsFetchesOnly ==
    /\ Cardinality(InFlight) <= SharedCapacity
    /\ limiter.permits = SharedCapacity - Cardinality(InFlight)
    /\ \A c \in Procs :
         pc[c] \in {"sig_history", "load_mint"}
         => fetch[c] = IdleFetch /\ c \notin Holders
    /\ Cardinality(RpcInFlight) <= Cardinality(Procs)

\* the pool is exhausted by fetches in flight while another listener has
\* its account read in flight
C20_Witness ==
    /\ Cardinality(InFlight) = SharedCapacity
    /\ limiter.permits = 0
    /\ \E c \in Procs : pc[c] = "load_mint"
    /\ Cardinality(RpcInFlight) > SharedCapacity

(***************************************************************************)
(* Properties of the mention filter, the source names, the mint scan, the  *)
(* signature history, the sink and the work per notification.              *)
(***************************************************************************)
\* the key listen compares the log lines with
ProgramOfInterest == Pubkey_to_string(Unwrap(Pubkey_from_str(config.pump_fun)))

\* C21: a notification none of whose log lines mentions the program of
\* interest is skipped: the step that examines it returns the listener to
\* the stream with the notification dropped, without classifying it and
\* without a fetch, a decode, a metadata lookup or a sink publish, the pool
\* and the connection untouched.
C21_UnmentionedSkipped ==
    [][\A l \in 1..NumListeners :
         (pc[l] = "filter" /\ ~Mentions(notif[l].logs, ProgramOfInterest))
         => /\ pc'[l] = "stream"
            /\ notif'[l] = NoNotif
            /\ out'[l].class = None /\ out'[l].res = "none"
            /\ out'[l].token = None /\ ~out'[l].published
            /\ cnt[l] = NoCalls /\ cnt'[l] = NoCalls
            /\ fetch'[l] = IdleFetch /\ parse'[l] = NoParse
            /\ limiter' = limiter /\ link' = link]_vars

\* a notification was skipped and the listener is back at the stream
C21_Witness ==
    \E l \in Procs :
        /\ pc[l] = "stream"
        /\ out[l].cause = "skipped"
        /\ cnt[l] = NoCalls

\* the text has no upper-case letter
AllLowerCase(s) == to_lowercase(s) = s
\* the texts the parser accepts, in lower case
AcceptedTexts ==
    { <<"p", "u", "m", "p", "f", "u", "n">>,
      <<"o", "n", "c", "h", "a", "i", "n">>,
      <<"o", "n", "-", "c", "h", "a", "i", "n">> }

\* C22 as stated: every string form of a variant, the one to_string writes
\* included, is all lower case.
C22_StringFormLowerCase ==
    source.op \in {"to_string", "serialize"} => AllLowerCase(source.text)

\* C22, amended: the serialized name of a variant is a fixed lower-case
\* token ("pumpfun", "on-chain"), the Display form is the fixed capitalised
\* word ("Pumpfun", "Onchain"); parsing either form, in any letter case,
\* returns the variant it was written from, and a text is accepted exactly
\* when its lower-case form is "pumpfun", "onchain" or "on-chain": any other
\* text is rejected with the invalid-source error carrying the text.
C22_SourceForms ==
    /\ source.op = "serialize"
       => /\ AllLowerCase(source.text)
          /\ source.text = TokenSource_serialize(Unwrap(source.variant))
          /\ source.text \in AcceptedTexts
    /\ source.op = "to_string"
       => /\ ~AllLowerCase(source.text)
          /\ to_lowercase(source.text) \in AcceptedTexts
          /\ \A w \in TokenSourceVariants :
                 w # Unwrap(source.variant) => TokenSource_fmt(w) # source.text
    /\ (source.result # None /\ source.variant # None)
       => Unwrap(source.result) = SourceOk(Unwrap(source.variant))
    /\ source.result # None
       => LET r == Unwrap(source.result) IN
          /\ r.ok <=> to_lowercase(source.text) \in AcceptedTexts
          /\ r.ok => r.value # None /\ Unwrap(r.value) \in TokenSourceVariants
          /\ ~r.ok => r.invalid = Some(source.text)

\* the Display form of OnChain was parsed in mixed letter case
C22_Witness ==
    /\ source.op = "recased"
    /\ source.variant = Some("OnChain")
    /\ source.text = <<"o", "N", "c", "H", "a", "I", "n">>
    /\ source.result = Some(SourceOk("OnChain"))

\* the mint field of an instruction read as a public key, None when the
\* info or the field is absent or the text is no key
MintField(pi) ==
    IF pi.info = None THEN None
    ELSE IF Unwrap(pi.info).mint = None THEN None
    ELSE Pubkey_from_str(Unwrap(Unwrap(pi.info).mint))
\* the positions of the createIdempotent instructions of the
\* associated-token-account program in the notifying transaction
Matches(tx) ==
    IF tx.message # "parsed" THEN {}
    ELSE {i \in 1..Len(tx.instructions) : IsAtaCreateIdempotent(tx.instructions[i])}
\* those of them whose mint field is a public key
UsableMatches(tx) == {i \in Matches(tx) : MintField(tx.instructions[i]) # None}
Earliest(positions) == CHOOSE i \in positions : \A j \in positions : i <= j

\* C23 as stated: the mint the parser goes on with is the mint field of the
\* earliest createIdempotent instruction of the associated-token-account
\* program.
C23_EarliestMatchIsTheMint ==
    [][\A l \in 1..NumListeners :
         (NotifyingTx(l) # None /\ parse'[l].mint # None)
         => LET tx == Unwrap(NotifyingTx(l)) IN
            /\ Matches(tx) # {}
            /\ parse'[l].mint = MintField(tx.instructions[Earliest(Matches(tx))])
       ]_vars

\* C23, amended: the candidate mint is the mint field of the earliest
\* createIdempotent instruction of the associated-token-account program
\* whose mint field is present and is a public key; matching instructions
\* before it whose field is absent or is no key are passed over, and no
\* instruction after it is looked at. Without such an instruction, or when
\* that mint is wrapped SOL, the parser returns "no token".
C23_FirstUsableMatchWins ==
    [][\A l \in 1..NumListeners :
         NotifyingTx(l) # None
         => LET tx == Unwrap(NotifyingTx(l)) IN
            IF UsableMatches(tx) = {}
            THEN /\ parse'[l].mint = None
                 /\ pc'[l] = "returned" /\ out'[l].parser = "no_token"
            ELSE LET m == MintField(tx.instructions[Earliest(UsableMatches(tx))]) IN
                 IF Pubkey_to_string(Unwrap(m)) = WrappedSol
                 THEN /\ parse'[l].mint = None
                      /\ pc'[l] = "returned" /\ out'[l].parser = "no_token"
                 ELSE /\ parse'[l].mint = m
                      /\ pc'[l] = "sig_history"
       ]_vars

\* the fetch has returned a notifying transaction whose two instructions
\* are both usable createIdempotent instructions, naming different mints,
\* and the scan is about to choose between them
C23_Witness ==
    \E l \in Procs :
        /\ pc[l] = "fetch_notifying" /\ NotifyingTx(l) # None
        /\ LET tx == Unwrap(NotifyingTx(l)) IN
           /\ Cardinality(UsableMatches(tx)) = 2
           /\ MintField(tx.instructions[1]) = Pubkey_from_str("MintA")
           /\ MintField(tx.instructions[2]) = Pubkey_from_str("MintB")

\* the answer of get_signatures_for_address the parser is looking at
SigAnswer(l) ==
    IF pc[l] = "sig_history" THEN parse[l].history ELSE None
\* the answer lists at least one signature
NonEmptyAnswer(r) == r.ok /\ Len(r.sigs) > 0

\* C24: per notification at most MaxSigAttempts signature-history queries
\* are made; a query after the first is issued only on an empty or failed
\* answer; the first non-empty answer ends the querying and its last-listed
\* signature is the one whose transaction is fetched; after MaxSigAttempts
\* empty or failed answers no signature is selected and no fetch of an
\* earliest transaction is called.
C24_SignatureHistoryAttempts ==
    [][\A l \in 1..NumListeners :
         /\ cnt'[l].get_signatures <= MaxSigAttempts
         /\ cnt'[l].get_signatures > cnt[l].get_signatures
            => /\ cnt'[l].get_signatures = cnt[l].get_signatures + 1
               /\ \/ cnt[l].get_signatures = 0 /\ NotifyingTx(l) # None
                  \/ SigAnswer(l) # None /\ ~NonEmptyAnswer(Unwrap(SigAnswer(l)))
         /\ (SigAnswer(l) # None /\ NonEmptyAnswer(Unwrap(SigAnswer(l))))
            => LET sigs == Unwrap(SigAnswer(l)).sigs
                   oldest == ParseSignature(sigs[Len(sigs)]) IN
               /\ cnt'[l].get_signatures = cnt[l].get_signatures
               /\ pc'[l] # "sig_history"
               /\ oldest # None
                  => /\ pc'[l] = "fetch_earliest"
                     /\ fetch'[l] = FetchCall(Unwrap(oldest))
                     /\ cnt'[l].fetch_calls = 2
         /\ (SigAnswer(l) # None /\ ~NonEmptyAnswer(Unwrap(SigAnswer(l))))
            => IF cnt[l].get_signatures < MaxSigAttempts
               THEN /\ pc'[l] = "sig_history" /\ SigAnswer(l)' = None
                    /\ fetch'[l] = IdleFetch
               ELSE /\ pc'[l] = "load_mint"
                    /\ fetch'[l] = IdleFetch
                    /\ cnt'[l].fetch_calls = 1
                    /\ cnt'[l].get_signatures = MaxSigAttempts
         /\ (pc'[l] = "fetch_earliest" /\ pc[l] # "fetch_earliest")
            => SigAnswer(l) # None /\ NonEmptyAnswer(Unwrap(SigAnswer(l)))
       ]_vars

\* the second query was answered with signatures after an empty or failed
\* first answer, and the fetch of the oldest one, sigE, has been called
C24_Witness ==
    \E l \in Procs :
        /\ pc[l] = "fetch_earliest"
        /\ cnt[l].get_signatures = 2
        /\ fetch[l] = FetchCall(102)
        /\ cnt[l].fetch_calls = 2

(***************************************************************************)
(* Properties of the listeners' fetches on the shared pool                 *)
(* (SpecSharedLive).                                                       *)
(***************************************************************************)
\* the calls of fetch_transaction_with_retry waiting for a permit
Waiting == {c \in Procs : fetch[c].pc = "acquire"}

\* C25: no listener waits for a permit while holding one: every permit
\* taken from the pool is held by a fetch with a request in flight, a
\* listener has given back the permit of its previous fetch when it calls
\* the next one, and, every request being answered and the permits handed
\* out fairly, every fetch that waits for a permit goes on to return.
C25_NoHoldAndWait ==
    /\ [][/\ SharedCapacity - limiter'.permits = Cardinality(Holders')
          /\ Holders' = InFlight'
          /\ Waiting' \cap Holders' = {}
          /\ \A c \in 1..SharedListeners :
               (fetch'[c].pc = "acquire" /\ fetch[c].pc # "acquire")
               => /\ ~fetch[c].permit /\ ~fetch'[c].permit
                  /\ fetch[c].nacq = fetch[c].nrel]_vars
    /\ \A c \in 1..SharedListeners :
         (fetch[c].pc = "acquire") ~> (fetch[c].pc = "done")

\* a listener waits for the permit of its earliest-transaction fetch while
\* the fetches of the others have the pool exhausted
C25_Witness ==
    \E c \in Procs :
        /\ pc[c] = "pool_wait_earliest"
        /\ fetch[c].pc = "acquire"
        /\ limiter.permits = 0
        /\ Cardinality(InFlight) = SharedCapacity

\* C26: the sink is called for a notification exactly when the parser
\* returned a Token for it, with that Token and once: process_log returns
\* with one sink call counted when the parser gave a Token and with none
\* when it gave "no token" or an error or was not called. Tokens reach the
\* sink in the order their notifications arrived: the sink is called for
\* the notification in processing only, and the next notification is read
\* from the stream after that call has returned.
C26_SinkCalls ==
    [][\A l \in 1..NumListeners :
         /\ cnt'[l].publish <= 1
         /\ cnt'[l].publish > cnt[l].publish
            => /\ pc[l] = "token_info" /\ pc'[l] = "publish"
               /\ notif[l] # NoNotif
               /\ out'[l].parser = "token" /\ out'[l].token # None
               /\ Unwrap(out'[l].token).mint_address
                    = Pubkey_to_string(Unwrap(parse[l].mint))
         /\ (pc'[l] = "returned" /\ pc[l] # "returned")
            => /\ out'[l].parser = "token" <=> cnt'[l].publish = 1
               /\ out'[l].parser = "token" <=> out'[l].token # None
               /\ out'[l].parser \in {"none", "no_token", "error"}
                  => cnt'[l].publish = 0 /\ ~out'[l].published
               /\ out'[l].published => out'[l].parser = "token"
         /\ pc[l] = "publish"
            => /\ pc'[l] = "returned"
               /\ out'[l].token = out[l].token
               /\ cnt'[l].publish = 1
         /\ (notif[l] = NoNotif /\ notif'[l] # NoNotif)
            => /\ pc[l] = "stream"
               /\ cnt[l].publish = 0 /\ out[l].token = None
       ]_vars

\* process_log returned after the sink took the Token of the notification
C26_Witness ==
    \E l \in Procs :
        /\ pc[l] = "returned"
        /\ out[l].parser = "token" /\ out[l].token # None
        /\ out[l].published
        /\ cnt[l].publish = 1

\* the limits of the external work of one notification
WithinWorkBounds(c) ==
    /\ c.fetch_calls <= 2
    /\ c.get_transaction <= 3 * c.fetch_calls
    /\ c.get_signatures <= MaxSigAttempts
    /\ c.get_account <= 1
    /\ c.metadata <= 1
    /\ c.publish <= 1
\* the parser holds a mint it accepted from the notifying transaction
HoldsAcceptedMint(l) ==
    /\ parse[l].mint # None
    /\ Pubkey_to_string(Unwrap(parse[l].mint)) # WrappedSol

\* C27: one notification causes at most 2 calls of
\* fetch_transaction_with_retry with at most 3 get-transaction requests
\* each, at most MaxSigAttempts signature queries, one account read, one
\* metadata lookup and one sink call; the parser comes to hold a mint only
\* from a fetched notifying transaction, and the second fetch, the account
\* read and the metadata lookup are made only while it holds an accepted
\* one.
C27_WorkPerNotification ==
    [][\A l \in 1..NumListeners :
         /\ WithinWorkBounds(cnt'[l])
         /\ (parse[l].mint = None /\ parse'[l].mint # None)
            => /\ NotifyingTx(l) # None
               /\ parse'[l].mint = ExtractedMint(l)
               /\ cnt[l].fetch_calls = 1
         /\ ( \/ cnt'[l].fetch_calls > 1 /\ cnt'[l].fetch_calls > cnt[l].fetch_calls
              \/ cnt'[l].get_account > cnt[l].get_account
              \/ cnt'[l].metadata > cnt[l].metadata )
            => /\ HoldsAcceptedMint(l)
               /\ cnt[l].fetch_calls >= 1 /\ cnt[l].get_signatures >= 1
         /\ (cnt'[l].get_transaction > cnt[l].get_transaction /\ cnt[l].fetch_calls = 2)
            => HoldsAcceptedMint(l)
       ]_vars

\* process_log returned after the most work one notification can cause
C27_Witness ==
    \E l \in Procs :
        /\ pc[l] = "returned"
        /\ cnt[l] = [fetch_calls |-> 2, get_transaction |-> 6,
                     get_signatures |-> MaxSigAttempts, get_account |-> 1,
                     metadata |-> 1, publish |-> 1]

====
